---- MODULE Spec2Model ----
\* RiceMaid backend: the LINE webhook conversation state machine
\* (app/api/endpoints/line_webhook.py) and the asynchronous
\* LineMessageHandler (app/core/handlers/message_handler.py).
\*
\* Message texts are sequences of Unicode code points, so that Python's
\* substring test (`in`), equality, str.strip and re.match are computed
\* on the characters and not assumed.
EXTENDS Integers, Sequences, FiniteSets, TLC

\* ------------------------------------------------------------------
\* Bounds of the model
\* ------------------------------------------------------------------
\* events in one webhook delivery
MaxEvents == 2
\* search results the Search Provider returns at most
MaxResults == 1
\* largest area (rai) and harvest age (days) posted to /carbon-credit/
MaxArea == 6
MaxHarvestAge == 120
\* rows the two IoT tables hold together at most
MaxRows == 2
\* requests to one endpoint that are suspended at an await at one time
MaxInFlight == 2
\* deliveries to POST /line/webhook in one run of the process
MaxDeliveries == 2
\* items in the result list of one search
MaxItems == 4
\* calls of LineMessageHandler.handle that run beside the set-province requests
MaxCalls == 1

Users == {"U1", "U2"}

None == "None"

\* ------------------------------------------------------------------
\* Text literals of the source, as code points
\* ------------------------------------------------------------------
\* Thai "calculate carbon credit" keyword, 18 code points (line_webhook.py:220)
KwCarbonTh == <<3588, 3635, 3609, 3623, 3603, 3588, 3634, 3619, 3660, 3610, 3629, 3609, 3648, 3588, 3619, 3604, 3636, 3605>>
\* "calculate carbon credit"
KwCarbonEn == <<99, 97, 108, 99, 117, 108, 97, 116, 101, 32, 99, 97, 114, 98, 111, 110, 32, 99, 114, 101, 100, 105, 116>>
\* Thai "today's news" keyword, 10 code points (line_webhook.py:228)
KwNewsTh == <<3586, 3656, 3634, 3623, 3623, 3633, 3609, 3609, 3637, 3657>>
\* "news"
KwNewsEn == <<110, 101, 119, 115>>
\* Thai "field overview" keyword, 8 code points (line_webhook.py:231)
KwOverviewTh == <<3616, 3634, 3614, 3619, 3623, 3617, 3609, 3634>>
\* "rice field overview"
KwOverviewEn == <<114, 105, 99, 101, 32, 102, 105, 101, 108, 100, 32, 111, 118, 101, 114, 118, 105, 101, 119>>
\* Thai "recommendation" keyword, 7 code points (line_webhook.py:256)
KwRecommendTh == <<3588, 3635, 3649, 3609, 3632, 3609, 3635>>
\* "recommendation"
KwRecommendEn == <<114, 101, 99, 111, 109, 109, 101, 110, 100, 97, 116, 105, 111, 110>>
\* Thai "water data" keyword, 9 code points (line_webhook.py:297)
KwWaterTh == <<3586, 3657, 3629, 3617, 3641, 3621, 3609, 3657, 3635>>
\* "water data"
KwWaterEn == <<119, 97, 116, 101, 114, 32, 100, 97, 116, 97>>
\* Thai "settings" trigger, 7 code points (message_handler.py:40)
KwSetting == <<3605, 3633, 3657, 3591, 3588, 3656, 3634>>
\* Thai "rai" followed by a comma, the literal between the two numbers of
\* the pattern (line_webhook.py:354)
LitRai == <<3652, 3619, 3656, 44>>
\* Thai "days", the literal that ends the pattern (line_webhook.py:354)
LitWan == <<3623, 3633, 3609>>

\* code points Python's \s and str.strip treat as white space
WhiteSpace ==
    {9, 10, 11, 12, 13, 28, 29, 30, 31, 32, 133, 160, 5760} \cup (8192..8202)
      \cup {8232, 8233, 8239, 8287, 12288}

\* the code points of the digits zero of the scripts of Unicode: each is
\* followed by the digits one to nine of its script
DigitZeros ==
    {
     48, 1632, 1776, 1984, 2406, 2534, 2662, 2790, 2918, 3046, 3174, 3302,
     3430, 3558, 3664, 3792, 3872, 4160, 4240, 6112, 6160, 6470, 6608, 6784,
     6800, 6992, 7088, 7232, 7248, 42528, 43216, 43264, 43472, 43504, 43600,
     44016, 65296, 66720, 68912, 69734, 69872, 69942, 70096, 70384, 70736,
     70864, 71248, 71360, 71472, 71904, 72016, 72784, 73040, 73120, 92768,
     92864, 93008, 120782, 120792, 120802, 120812, 120822, 123200, 123632,
     125264, 130032
    }

\* code points Python's \d matches in a str pattern: the decimal digits of
\* every script
Digits == UNION {z..(z + 9) : z \in DigitZeros}

\* most digits int() converts (sys.get_int_max_str_digits())
MaxStrDigits == 4300

\* the decimal digits of 2^1024 - 2^970, the least number float() rounds to inf
FloatOverflow ==
    <<
     1, 7, 9, 7, 6, 9, 3, 1, 3, 4, 8, 6, 2, 3, 1, 5, 8, 0, 7, 9, 3, 7, 2, 8,
     9, 7, 1, 4, 0, 5, 3, 0, 3, 4, 1, 5, 0, 7, 9, 9, 3, 4, 1, 3, 2, 7, 1, 0,
     0, 3, 7, 8, 2, 6, 9, 3, 6, 1, 7, 3, 7, 7, 8, 9, 8, 0, 4, 4, 4, 9, 6, 8,
     2, 9, 2, 7, 6, 4, 7, 5, 0, 9, 4, 6, 6, 4, 9, 0, 1, 7, 9, 7, 7, 5, 8, 7,
     2, 0, 7, 0, 9, 6, 3, 3, 0, 2, 8, 6, 4, 1, 6, 6, 9, 2, 8, 8, 7, 9, 1, 0,
     9, 4, 6, 5, 5, 5, 5, 4, 7, 8, 5, 1, 9, 4, 0, 4, 0, 2, 6, 3, 0, 6, 5, 7,
     4, 8, 8, 6, 7, 1, 5, 0, 5, 8, 2, 0, 6, 8, 1, 9, 0, 8, 9, 0, 2, 0, 0, 0,
     7, 0, 8, 3, 8, 3, 6, 7, 6, 2, 7, 3, 8, 5, 4, 8, 4, 5, 8, 1, 7, 7, 1, 1,
     5, 3, 1, 7, 6, 4, 4, 7, 5, 7, 3, 0, 2, 7, 0, 0, 6, 9, 8, 5, 5, 5, 7, 1,
     3, 6, 6, 9, 5, 9, 6, 2, 2, 8, 4, 2, 9, 1, 4, 8, 1, 9, 8, 6, 0, 8, 3, 4,
     9, 3, 6, 4, 7, 5, 2, 9, 2, 7, 1, 9, 0, 7, 4, 1, 6, 8, 4, 4, 4, 3, 6, 5,
     5, 1, 0, 7, 0, 4, 3, 4, 2, 7, 1, 1, 5, 5, 9, 6, 9, 9, 5, 0, 8, 0, 9, 3,
     0, 4, 2, 8, 8, 0, 1, 7, 7, 9, 0, 4, 1, 7, 4, 4, 9, 7, 7, 9, 2
    >>

\* ------------------------------------------------------------------
\* String operations of Python
\* ------------------------------------------------------------------
\* kw in text
Contains(text, kw) ==
    \E i \in 1..(Len(text) - Len(kw) + 1) :
        /\ text[i] = kw[1]
        /\ SubSeq(text, i, i + Len(kw) - 1) = kw

\* the first position >= i of text whose code point is not in S (the
\* position after the text if there is none)
SkipWhile(text, i, S) ==
    IF \A j \in i..Len(text) : text[j] \in S
    THEN (IF i > Len(text) THEN i ELSE Len(text) + 1)
    ELSE CHOOSE j \in i..Len(text) :
             text[j] \notin S /\ \A k \in i..(j - 1) : text[k] \in S

RECURSIVE SkipBack(_, _, _)
\* the last position <= i of text whose code point is not in S (0 if none)
SkipBack(text, i, S) ==
    IF i >= 1 /\ text[i] \in S THEN SkipBack(text, i - 1, S) ELSE i

\* text.strip()
Strip(text) ==
    LET first == SkipWhile(text, 1, WhiteSpace)
        last  == SkipBack(text, Len(text), WhiteSpace)
    IN  IF first > last THEN <<>> ELSE SubSeq(text, first, last)

\* lit occurs in text at position i
HasAt(text, i, lit) ==
    /\ i + Len(lit) - 1 <= Len(text)
    /\ SubSeq(text, i, i + Len(lit) - 1) = lit

\* the value of a decimal digit of any script
DigitValue(c) == c - (CHOOSE z \in DigitZeros : z <= c /\ c <= z + 9)

RECURSIVE ToNat(_)
\* the number a string of decimal digits denotes
ToNat(ds) ==
    IF ds = <<>> THEN 0
    ELSE 10 * ToNat(SubSeq(ds, 1, Len(ds) - 1)) + DigitValue(ds[Len(ds)])

\* int(ds) of a string of decimal digits: a string of more than 4300 digits
\* raises ValueError
IntOf(ds) ==
    IF Len(ds) > MaxStrDigits THEN [exc |-> "ValueError"]
    ELSE [exc |-> "none", value |-> ToNat(ds)]

\* the digits of ds from the first that is not a zero
Significant(ds) == SubSeq(ds, SkipWhile(ds, 1, DigitZeros), Len(ds))

\* of two strings of digits of one length, the first denotes the lesser number
DigitsBelow(ds, limit) ==
    \E i \in 1..Len(ds) :
        /\ DigitValue(ds[i]) < limit[i]
        /\ \A k \in 1..(i - 1) : DigitValue(ds[k]) = limit[k]

RECURSIVE BitLength(_)
BitLength(n) == IF n = 0 THEN 0 ELSE 1 + BitLength(n \div 2)

\* the double nearest to the natural number n, ties to the even mantissa
RoundToDouble(n) ==
    IF BitLength(n) <= 53 THEN n
    ELSE LET e == BitLength(n) - 53
             q == n \div 2^e
             r == n % 2^e
         IN  IF 2 * r > 2^e \/ (2 * r = 2^e /\ q % 2 = 1)
             THEN (q + 1) * 2^e ELSE q * 2^e

\* float(ds) of a string of decimal digits: never raises; a number of at
\* most 15 digits is a double, a longer one is rounded to the nearest
\* double, and from 2^1024 - 2^970 on the result is inf
FloatOf(ds) ==
    LET sig == Significant(ds)
    IN  IF Len(sig) <= 15 THEN [inf |-> FALSE, value |-> ToNat(sig)]
        ELSE IF Len(sig) > Len(FloatOverflow)
                  \/ (Len(sig) = Len(FloatOverflow) /\ ~DigitsBelow(sig, FloatOverflow))
        THEN [inf |-> TRUE]
        ELSE [inf |-> FALSE, value |-> RoundToDouble(ToNat(sig))]

\* lines 354-357: re.match(r"(\d+)\s*<rai>,\s*(\d+)\s*<days>", text), anchored
\* at the start, anything may follow the match; float() of the first group
\* and int() of the second
CarbonDataMatch(text) ==
    LET a == SkipWhile(text, 1, Digits)
        b == SkipWhile(text, a, WhiteSpace)
        c == SkipWhile(text, b + Len(LitRai), WhiteSpace)
        d == SkipWhile(text, c, Digits)
        e == SkipWhile(text, d, WhiteSpace)
    IN  IF a > 1 /\ HasAt(text, b, LitRai) /\ d > c /\ HasAt(text, e, LitWan)
        THEN [matched |-> TRUE,
              area |-> FloatOf(SubSeq(text, 1, a - 1)),
              harvest_age |-> IntOf(SubSeq(text, c, d - 1))]
        ELSE [matched |-> FALSE]

\* ------------------------------------------------------------------
\* Reference data and inputs
\* ------------------------------------------------------------------
\* Thai name of Suphan Buri, 10 code points (named in line_webhook.py:298)
SuphanTh == <<3626, 3640, 3614, 3619, 3619, 3603, 3610, 3640, 3619, 3637>>
\* "Suphan Buri"
SuphanEn == <<83, 117, 112, 104, 97, 110, 32, 66, 117, 114, 105>>
\* Thai name of Nakhon Ratchasima, 10 code points (named in line_webhook.py:298)
KoratTh == <<3609, 3588, 3619, 3619, 3634, 3594, 3626, 3637, 3617, 3634>>
\* "Nakhon Ratchasima"
KoratEn == <<78, 97, 107, 104, 111, 110, 32, 82, 97, 116, 99, 104, 97, 115, 105, 109, 97>>

\* app.enum.province.Province, in enumeration order: the closed list of
\* provinces with Thai name, English name and numeric code
Province ==
    << [name_th |-> SuphanTh, name_en |-> SuphanEn, code |-> 72],
       [name_th |-> KoratTh,  name_en |-> KoratEn,  code |-> 30] >>

NoProvince == [name_th |-> <<>>, name_en |-> <<>>, code |-> 0]

\* next((prov for prov in Province if prov.value.name_th == name or
\*       prov.value.name_en == name), None)
MatchProvince(name) ==
    LET hits == {i \in DOMAIN Province :
                    Province[i].name_th = name \/ Province[i].name_en = name}
    IN  IF hits = {} THEN NoProvince
        ELSE Province[CHOOSE i \in hits : \A j \in hits : i <= j]

Sp == <<32>>
\* "abc"
Abc == <<97, 98, 99>>
\* "newspaper": contains the keyword "news" inside a longer word
Newspaper == <<110, 101, 119, 115, 112, 97, 112, 101, 114>>
\* "5 <rai>, 120 <days>", the example of the carbon-credit prompt
CarbonData == <<53, 32>> \o LitRai \o <<32, 49, 50, 48, 32>> \o LitWan
\* "0<rai>,120<days>": matches the pattern without white space
CarbonDataZero == <<48>> \o LitRai \o <<49, 50, 48>> \o LitWan
\* "5 <rai> 120 <days>": the comma is missing
CarbonDataNoComma == <<53, 32, 3652, 3619, 3656, 32, 49, 50, 48, 32>> \o LitWan

\* message texts the environment sends to the webhook
WebhookTexts ==
    { KwCarbonTh, KwCarbonEn, KwNewsTh, Newspaper, KwOverviewTh, KwRecommendTh,
      KwRecommendEn, KwWaterTh,
      \* several keywords, the later trigger first in the text
      KwNewsEn \o Sp \o KwCarbonTh,
      KwOverviewTh \o Sp \o KwNewsEn,
      KwRecommendTh \o Sp \o KwOverviewTh,
      KwWaterTh \o Sp \o KwRecommendTh,
      KwWaterEn \o Sp \o KwRecommendEn \o Sp \o KwOverviewEn \o Sp \o KwNewsEn
          \o Sp \o KwCarbonEn,
      CarbonData, CarbonDataZero, CarbonDataNoComma, Abc,
      SuphanTh, KoratEn, SuphanEn \o Sp }

\* ------------------------------------------------------------------
\* Collaborators
\* ------------------------------------------------------------------
\* calls that leave the process: the messaging gateway (typing indicator,
\* reply, reply of the except clause), the Search Provider, the
\* Chat-Completion Provider and the hydrology API (Small, Medium)
Collaborators ==
    {"typing", "search", "chat", "fetch_small", "fetch_medium", "reply", "error_reply"}

\* the calls of the try block whose failure raises out of it; the failure
\* of the search is caught inside get_farm_news
RaisingCalls == {"typing", "chat", "fetch_small", "fetch_medium", "reply"}

\* the sets of collaborator calls that fail in one turn: the first raising
\* call that fails ends the try block, so no later call of it is made and
\* one failing call of the try block per turn covers every outcome
FailureSets ==
    {F \in SUBSET Collaborators : Cardinality(F \cap RaisingCalls) <= 1}

\* what the environment decides about one turn: which collaborator calls
\* fail and how many results the Search Provider has
Envs == [fail : FailureSets, results : 0..MaxResults]

\* a genai.ChatSession started by get_or_create_chat_session
ChatSession == "ChatSession"

\* reply texts
Reply(kind, detail, n) == [kind |-> kind, detail |-> detail, n |-> n]
NoReply == Reply("none", "", 0)

\* get_farm_news(): the search never raises out of it
get_farm_news(env) ==
    IF "search" \in env.fail THEN Reply("news_error", "search", 0)
    ELSE IF env.results = 0 THEN Reply("no_news", "", 0)
    ELSE Reply("news", "", IF env.results < 3 THEN env.results ELSE 3)

\* ------------------------------------------------------------------
\* Session store of the webhook: chat_sessions and chat_states are dicts,
\* modelled as functions whose domain is the set of keys
\* ------------------------------------------------------------------
EmptyHandles == [x \in {} |-> "None"]

DictSet(d, k, v) == [x \in (DOMAIN d) \cup {k} |-> IF x = k THEN v ELSE d[x]]

\* chat_states.get(user_id)
get_chat_state(cs, u) == IF u \in DOMAIN cs THEN cs[u] ELSE None

\* set_chat_state that writes only where an entry exists
set_chat_state_IfPresent(cs, u, state) ==
    IF u \in DOMAIN cs THEN DictSet(cs, u, state) ELSE cs

\* chat_states[user_id] = state
set_chat_state(cs, u, state) == DictSet(cs, u, state)

\* get_or_create_chat_session: the dict after the call
get_or_create_chat_session(ss, u) ==
    IF u \notin DOMAIN ss THEN DictSet(ss, u, ChatSession) ELSE ss

\* ------------------------------------------------------------------
\* Python floats (IEEE-754 binary64) of the calculator
\* ------------------------------------------------------------------
\* natural numbers of any size: sequences of limbs, least limb first, the
\* last limb not 0; <<>> is 0
LimbBits == 14
LimbBase == 2^LimbBits

\* bits of the significand of a double
MantissaBits == 53

RECURSIVE BigTrim(_)
BigTrim(a) ==
    IF a = <<>> \/ a[Len(a)] # 0 THEN a ELSE BigTrim(SubSeq(a, 1, Len(a) - 1))

RECURSIVE BigOfNat(_)
BigOfNat(n) == IF n = 0 THEN <<>> ELSE <<n % LimbBase>> \o BigOfNat(n \div LimbBase)

RECURSIVE BigToNat(_)
BigToNat(a) == IF a = <<>> THEN 0 ELSE a[1] + LimbBase * BigToNat(Tail(a))

Limb(a, i) == IF i \in DOMAIN a THEN a[i] ELSE 0

\* the sum of the products a[i] * b[j] with i + j = k + 1, from i on
RECURSIVE ColSum(_, _, _, _)
ColSum(a, b, k, i) ==
    IF i > Len(a) THEN 0 ELSE a[i] * Limb(b, k + 1 - i) + ColSum(a, b, k, i + 1)

\* the limbs of a number given by column sums, the carries moved up
RECURSIVE Propagate(_, _, _)
Propagate(cols, i, carry) ==
    IF i > Len(cols) THEN BigOfNat(carry)
    ELSE <<(cols[i] + carry) % LimbBase>>
           \o Propagate(cols, i + 1, (cols[i] + carry) \div LimbBase)

BigMul(a, b) ==
    IF a = <<>> \/ b = <<>> THEN <<>>
    ELSE BigTrim(Propagate([k \in 1..(Len(a) + Len(b) - 1) |-> ColSum(a, b, k, 1)],
                           1, 0))

BigSucc(a) ==
    IF a = <<>> THEN <<1>> ELSE Propagate([a EXCEPT ![1] = a[1] + 1], 1, 0)

\* quotient and remainder of a by a divisor d below 2^17
RECURSIVE BigDivMod(_, _)
BigDivMod(a, d) ==
    IF a = <<>> THEN [q |-> <<>>, r |-> 0]
    ELSE LET hi == BigDivMod(Tail(a), d)
             t == hi.r * LimbBase + a[1]
         IN  [q |-> BigTrim(<<t \div d>> \o hi.q), r |-> t % d]

BigBitLength(a) ==
    IF a = <<>> THEN 0 ELSE (Len(a) - 1) * LimbBits + BitLength(a[Len(a)])

\* a * 2^s
BigShl(a, s) ==
    [i \in 1..(s \div LimbBits) |-> 0] \o BigMul(a, <<2^(s % LimbBits)>>)

\* a \div 2^s
BigShr(a, s) ==
    LET hi == SubSeq(a, s \div LimbBits + 1, Len(a))
        r == s % LimbBits
    IN  BigTrim([i \in 1..Len(hi) |->
                    hi[i] \div 2^r + (Limb(hi, i + 1) % 2^r) * 2^(LimbBits - r)])

\* bit j of a, bit 0 the least
BigBit(a, j) == (Limb(a, j \div LimbBits + 1) \div 2^(j % LimbBits)) % 2

\* a % 2^j # 0
BigLowBits(a, j) ==
    \/ \E i \in 1..(j \div LimbBits) : Limb(a, i) # 0
    \/ Limb(a, j \div LimbBits + 1) % 2^(j % LimbBits) # 0

\* (a + f) / 2^s rounded to the nearest integer, ties to even, for s >= 1;
\* sticky tells that the fraction f in [0, 1) is not 0
RoundHalfEven(a, s, sticky) ==
    LET q == BigShr(a, s)
    IN  IF BigBit(a, s - 1) = 1
             /\ (BigLowBits(a, s - 1) \/ sticky \/ BigBit(q, 0) = 1)
        THEN BigSucc(q) ELSE q

\* a double: sign, significand m with 2^52 <= m < 2^53 and exponent e, the
\* value m * 2^e; zero has m = 0 and keeps its sign. Results stay in the
\* range of the normal doubles, no operation of the calculator on the
\* numbers considered overflows or underflows
Double(neg, m, e) == [neg |-> neg, m |-> m, e |-> e]

\* the double nearest to (a + f) * 2^e, ties to even
Binary64(neg, a, e, sticky) ==
    LET len == BigBitLength(a)
    IN  IF a = <<>> THEN Double(neg, <<>>, 0)
        ELSE IF len <= MantissaBits
        THEN Double(neg, BigShl(a, MantissaBits - len), e - (MantissaBits - len))
        ELSE LET m == RoundHalfEven(a, len - MantissaBits, sticky)
             IN  IF BigBitLength(m) > MantissaBits
                 THEN Double(neg, BigShr(m, 1), e + len - MantissaBits + 1)
                 ELSE Double(neg, m, e + len - MantissaBits)

\* float(i) of an integer below 2^53 in size
ToDouble(i) == Binary64(i < 0, BigOfNat(IF i < 0 THEN -i ELSE i), 0, FALSE)

\* x * y
FMul(x, y) == Binary64(x.neg # y.neg, BigMul(x.m, y.m), x.e + y.e, FALSE)

\* x / d for a whole number d, 0 < d < 2^17
FDiv(x, d) ==
    LET k == BitLength(d) + 2
        qr == BigDivMod(BigShl(x.m, k), d)
    IN  Binary64(x.neg, qr.q, x.e - k, qr.r # 0)

\* n divided p times by 10, with the remainders
RECURSIVE DivPow10(_, _)
DivPow10(a, p) ==
    IF p = 0 THEN [q |-> a, r |-> 0]
    ELSE LET lo == BigDivMod(a, 10)
             hi == DivPow10(lo.q, p - 1)
         IN  [q |-> hi.q, r |-> IF lo.r # 0 THEN 1 ELSE hi.r]

\* the double a decimal literal n * 10^-p denotes: the nearest one
DoubleOfDecimal(n, p) ==
    LET k == MantissaBits + 2 + 4 * p
        qr == DivPow10(BigShl(BigOfNat(n), k), p)
    IN  Binary64(FALSE, qr.q, -k, qr.r # 0)

\* ------------------------------------------------------------------
\* Carbon-credit calculator (app/api/endpoints/carbon_credit.py)
\* ------------------------------------------------------------------
\* METHANE_EMISSION_COEFF = 0.1952: the double the literal denotes
METHANE_EMISSION_COEFF == DoubleOfDecimal(1952, 4)
GWP_METHANE == 25

\* 10**-3: Python gives the double 0.001
TenToMinus3 == DoubleOfDecimal(1, 3)

\* parameters of estimate_methane_emission, none of them has a default
EstimateParams ==
    {"coefficient_methane_emission", "area_rice_field", "harvest_age", "gwp_methane"}

\* keyword arguments of the call in handle_text_message
WebhookEstimateArgs == {"area_rice_field", "harvest_age"}

\* Python binds a call only if every parameter without default gets an
\* argument and no argument is left over; otherwise the call raises TypeError
CallBinds(params, kwargs) == params \subseteq kwargs /\ kwargs \subseteq params

\* the product without the global warming potential
estimate_methane_emission_NoGwp(coefficient, area, harvest_age, gwp) ==
    FMul(FMul(FMul(coefficient, area), ToDouble(harvest_age)), TenToMinus3)

\* line 25: coefficient * area * harvest_age * 10**-3 * gwp, the products
\* taken from left to right and each rounded; coefficient and area are
\* floats, harvest_age and gwp whole numbers
estimate_methane_emission(coefficient, area, harvest_age, gwp) ==
    FMul(FMul(FMul(FMul(coefficient, area), ToDouble(harvest_age)), TenToMinus3),
         ToDouble(gwp))

\* methane_emission / 1000 (carbon_credit.py:47)
DivideBy1000(x) == FDiv(x, 1000)

\* methane_emission*1000 (line_webhook.py:366)
TimesBy1000(x) == FMul(x, ToDouble(1000))

\* the value estimate_methane_emission returns for the arguments of line
\* 40-45; the area of the body is a float
MethaneEmission(area, harvest_age) ==
    estimate_methane_emission(METHANE_EMISSION_COEFF, ToDouble(area), harvest_age,
                              GWP_METHANE)

\* body of POST /carbon-credit/ (CarbonCreditRequest)
CarbonCreditRequest(area, harvest_age) == [area |-> area, harvest_age |-> harvest_age]

NoCarbonRequest == CarbonCreditRequest(0, 0)

\* what POST /carbon-credit/ answers: the status, the detail of an
\* HTTPException, the fields of CarbonCreditResponse
CarbonResponse(status, detail, methane_emission, carbon_credit) ==
    [status |-> status, detail |-> detail,
     methane_emission |-> methane_emission, carbon_credit |-> carbon_credit]

\* an HTTPException has no body of numbers
NoNumber == Double(FALSE, <<>>, 0)

NoCarbonResponse == CarbonResponse(0, "", NoNumber, NoNumber)

\* calculate_carbon_credit with carbon_credit = methane_emission * 1000
calculate_carbon_credit_Times(data) ==
    IF data.area <= 0
    THEN CarbonResponse(400, "Area must be greater than 0", NoNumber, NoNumber)
    ELSE IF data.harvest_age <= 0
    THEN CarbonResponse(400, "Harvest age must be greater than 0", NoNumber, NoNumber)
    ELSE LET methane_emission == MethaneEmission(data.area, data.harvest_age)
         IN  CarbonResponse(200, "", methane_emission, TimesBy1000(methane_emission))

\* calculate_carbon_credit with the harvest age checked before the area
calculate_carbon_credit_AgeFirst(data) ==
    IF data.harvest_age <= 0
    THEN CarbonResponse(400, "Harvest age must be greater than 0", NoNumber, NoNumber)
    ELSE IF data.area <= 0
    THEN CarbonResponse(400, "Area must be greater than 0", NoNumber, NoNumber)
    ELSE LET methane_emission == MethaneEmission(data.area, data.harvest_age)
         IN  CarbonResponse(200, "", methane_emission, DivideBy1000(methane_emission))

\* calculate_carbon_credit, lines 34-49
calculate_carbon_credit(data) ==
    IF data.area <= 0
    THEN CarbonResponse(400, "Area must be greater than 0", NoNumber, NoNumber)
    ELSE IF data.harvest_age <= 0
    THEN CarbonResponse(400, "Harvest age must be greater than 0", NoNumber, NoNumber)
    ELSE LET methane_emission == MethaneEmission(data.area, data.harvest_age)
         IN  CarbonResponse(200, "", methane_emission, DivideBy1000(methane_emission))

\* the carbon-credit figure of the chat report, methane_emission*1000
\* (line_webhook.py:366)
ReportCarbonCredit(methane_emission) == TimesBy1000(methane_emission)

\* f"{x:.2f}" of a float x >= 0 (line_webhook.py:365-366): the number of
\* hundredths nearest to the value, ties to even
Format2f(x) ==
    LET a == BigMul(x.m, BigOfNat(100))
    IN  IF x.e >= 0 THEN BigToNat(BigShl(a, x.e))
        ELSE IF -x.e > BigBitLength(a) + 1 THEN 0
        ELSE BigToNat(RoundHalfEven(a, -x.e, FALSE))

\* attributes of the module google.generativeai that the source uses
GenaiAttributes == {"configure", "GenerativeModel", "ChatSession", "protos"}

\* ------------------------------------------------------------------
\* handle_text_message (line_webhook.py:204-395)
\* ------------------------------------------------------------------
\* the chain with the news trigger tested before the carbon-credit trigger
Branch_NewsFirst(text, state, hasSession) ==
    IF Contains(text, KwNewsTh) \/ Contains(text, KwNewsEn)
        THEN "news_request"
    ELSE IF Contains(text, KwCarbonTh) \/ Contains(text, KwCarbonEn)
        THEN "carbon_request"
    ELSE IF Contains(text, KwOverviewTh) \/ Contains(text, KwOverviewEn)
        THEN "overview_request"
    ELSE IF Contains(text, KwRecommendTh) \/ Contains(text, KwRecommendEn)
        THEN "recommend_request"
    ELSE IF hasSession /\ state = "waiting_recommendation"
        THEN "recommendation_context"
    ELSE IF Contains(text, KwWaterTh) \/ Contains(text, KwWaterEn)
        THEN "water_request"
    ELSE IF hasSession /\ state = "awaiting_province"
        THEN "province"
    ELSE IF hasSession /\ state = "awaiting_carbon_credit_data"
        THEN "carbon_data"
    ELSE "free_chat"

\* the if/elif chain, lines 220-381: which branch handles the message
Branch(text, state, hasSession) ==
    IF Contains(text, KwCarbonTh) \/ Contains(text, KwCarbonEn)
        THEN "carbon_request"
    ELSE IF Contains(text, KwNewsTh) \/ Contains(text, KwNewsEn)
        THEN "news_request"
    ELSE IF Contains(text, KwOverviewTh) \/ Contains(text, KwOverviewEn)
        THEN "overview_request"
    ELSE IF Contains(text, KwRecommendTh) \/ Contains(text, KwRecommendEn)
        THEN "recommend_request"
    ELSE IF hasSession /\ state = "waiting_recommendation"
        THEN "recommendation_context"
    ELSE IF Contains(text, KwWaterTh) \/ Contains(text, KwWaterEn)
        THEN "water_request"
    ELSE IF hasSession /\ state = "awaiting_province"
        THEN "province"
    ELSE IF hasSession /\ state = "awaiting_carbon_credit_data"
        THEN "carbon_data"
    ELSE "free_chat"

\* outcome of the body of the try block: the two dicts, the collaborator
\* calls made, the exception raised ("none" if none) and response_text
Body(cs, ss, calls, exc, text) ==
    [cs |-> cs, ss |-> ss, calls |-> calls, exc |-> exc, text |-> text]

\* chat_session.send_message(prompt) on the session of u, then `after`
SendMessage(cs, ss, u, env, calls, after) ==
    IF ss[u] = None THEN Body(cs, ss, calls, "AttributeError", NoReply)
    ELSE IF "chat" \in env.fail THEN Body(cs, ss, calls \o <<"chat">>, "chat", NoReply)
    ELSE Body(after.cs, ss, calls \o <<"chat">>, "none", after.text)

\* the carbon-credit request without the call of set_chat_state
CarbonRequest_NoState(cs, ss, u) ==
    [cs |-> cs, ss |-> ss, calls |-> <<>>, exc |-> "none",
     text |-> Reply("carbon_prompt", "", 0)]

\* lines 220-226
CarbonRequest(cs, ss, u) ==
    Body(set_chat_state(cs, u, "awaiting_carbon_credit_data"), ss, <<>>, "none",
         Reply("carbon_prompt", "", 0))

\* lines 228-229
NewsRequest(cs, ss, env) ==
    Body(cs, ss, <<"search">>, "none", get_farm_news(env))

\* the overview request that forgets every chat handle
OverviewRequest_DropHandles(cs, ss) ==
    Body(cs, EmptyHandles, <<>>, "AttributeError", NoReply)

\* lines 231-254: genai.generate_weather_mock_data is looked up on the
\* google.generativeai module
OverviewRequest(cs, ss) ==
    IF "generate_weather_mock_data" \in GenaiAttributes
    THEN Body(cs, ss, <<>>, "none", Reply("overview", "", 0))
    ELSE Body(cs, ss, <<>>, "AttributeError", NoReply)

\* lines 256-261
RecommendRequest(cs, ss, u) ==
    Body(set_chat_state(cs, u, "waiting_recommendation"), ss, <<>>, "none",
         Reply("recommend_prompt", "", 0))

\* lines 263-295
RecommendationContext(cs, ss, u, env) ==
    LET ss1 == get_or_create_chat_session(ss, u)
    IN  SendMessage(cs, ss1, u, env, <<"search">>,
                    [cs |-> set_chat_state(cs, u, None),
                     text |-> Reply("llm", "recommendation", 0)])

\* lines 297-299
WaterRequest(cs, ss, u) ==
    Body(set_chat_state(cs, u, "awaiting_province"), ss, <<>>, "none",
         Reply("province_prompt", "", 0))

\* lines 301-351
ProvinceBranch(cs, ss, u, text, env) ==
    LET province == MatchProvince(text)
    IN  IF province # NoProvince
        THEN IF "fetch_small" \in env.fail
             THEN Body(cs, ss, <<"fetch_small">>, "fetch_small", NoReply)
             ELSE IF "fetch_medium" \in env.fail
             THEN Body(cs, ss, <<"fetch_small", "fetch_medium">>, "fetch_medium", NoReply)
             ELSE SendMessage(cs, get_or_create_chat_session(ss, u), u, env,
                              <<"fetch_small", "fetch_medium">>,
                              [cs |-> set_chat_state(cs, u, None),
                               text |-> Reply("water_summary_prompt", "", province.code)])
        ELSE Body(set_chat_state(cs, u, None), ss, <<>>, "none",
                  Reply("province_not_found", "", 0))

\* lines 353-376: int() of the second group may raise ValueError; the call
\* of line 359 raises TypeError; with an area that float() made inf the
\* estimate is inf, or nan for a harvest age of 0
CarbonDataBranch(cs, ss, u, text) ==
    LET match == CarbonDataMatch(text)
    IN  IF ~match.matched
        THEN Body(set_chat_state(cs, u, None), ss, <<>>, "none",
                  Reply("format_error", "", 0))
        ELSE IF match.harvest_age.exc # "none"
        THEN Body(cs, ss, <<>>, match.harvest_age.exc, NoReply)
        ELSE IF ~CallBinds(EstimateParams, WebhookEstimateArgs)
        THEN Body(cs, ss, <<>>, "TypeError", NoReply)
        ELSE IF match.area.inf
        THEN Body(cs, DictSet(ss, u, None), <<>>, "none",
                  Reply("carbon_report",
                        IF match.harvest_age.value = 0 THEN "nan" ELSE "inf", 0))
        ELSE Body(cs, DictSet(ss, u, None), <<>>, "none",
                  Reply("carbon_report", "",
                        estimate_methane_emission(METHANE_EMISSION_COEFF,
                                                  ToDouble(match.area.value),
                                                  match.harvest_age.value,
                                                  GWP_METHANE)))

\* free-form chat answered without chat handle and without the provider
FreeChat_Canned(cs, ss, u, env) ==
    Body(cs, ss, <<>>, "none", Reply("llm", "free", 0))

\* lines 378-381
FreeChat(cs, ss, u, env) ==
    SendMessage(cs, get_or_create_chat_session(ss, u), u, env, <<>>,
                [cs |-> cs, text |-> Reply("llm", "free", 0)])

\* the record of one turn
Turn(u, text, pre, hadSession, branch, calls, exc, replies, raised) ==
    [user |-> u, text |-> text, pre |-> pre, hadSession |-> hadSession,
     branch |-> branch, calls |-> calls, exc |-> exc, replies |-> replies,
     raised |-> raised]

NoTurn == Turn("none", <<>>, None, FALSE, "none", <<>>, "none", <<>>, FALSE)

\* lines 212-381: the typing indicator and the branch of the chain
TryBlock(cs, ss, u, text, env, branch) ==
    IF "typing" \in env.fail THEN Body(cs, ss, <<>>, "typing", NoReply)
    ELSE CASE branch = "carbon_request" -> CarbonRequest(cs, ss, u)
           [] branch = "news_request" -> NewsRequest(cs, ss, env)
           [] branch = "overview_request" -> OverviewRequest(cs, ss)
           [] branch = "recommend_request" -> RecommendRequest(cs, ss, u)
           [] branch = "recommendation_context" -> RecommendationContext(cs, ss, u, env)
           [] branch = "water_request" -> WaterRequest(cs, ss, u)
           [] branch = "province" -> ProvinceBranch(cs, ss, u, text, env)
           [] branch = "carbon_data" -> CarbonDataBranch(cs, ss, u, text)
           [] OTHER -> FreeChat(cs, ss, u, env)

\* lines 383-395: the reply of the try block and, when the try block or
\* that reply raised, the reply of the except clause
ReplyOrExcept(body, u, text, state, hadSession, branch, env) ==
    LET replied == body.exc = "none" /\ "reply" \notin env.fail
        exc     == IF body.exc = "none" /\ "reply" \in env.fail THEN "reply" ELSE body.exc
        raised  == ~replied /\ "error_reply" \in env.fail
        calls   == <<"typing">> \o body.calls
                     \o (IF body.exc = "none" THEN <<"reply">> ELSE <<>>)
                     \o (IF replied THEN <<>> ELSE <<"error_reply">>)
        replies == IF replied THEN <<body.text>>
                   ELSE IF raised THEN <<>>
                   ELSE <<Reply("error", exc, 0)>>
    IN  [cs |-> body.cs, ss |-> body.ss,
         turn |-> Turn(u, text, state, hadSession,
                       IF "typing" \in env.fail THEN "none" ELSE branch,
                       calls, exc, replies, raised)]

\* the turn of a user in the given state that the given branch handles
Dispatch(cs, ss, u, text, env, state, hadSession, branch) ==
    ReplyOrExcept(TryBlock(cs, ss, u, text, env, branch),
                  u, text, state, hadSession, branch, env)

\* handle_text_message: the dicts after the turn and what the turn did
handle_text_message(cs, ss, u, text, env) ==
    Dispatch(cs, ss, u, text, env, get_chat_state(cs, u), u \in DOMAIN ss,
             Branch(text, get_chat_state(cs, u), u \in DOMAIN ss))

\* ------------------------------------------------------------------
\* handle_image_message (line_webhook.py:398-489)
\* ------------------------------------------------------------------
\* the calls of handle_image_message that can fail: get_message_content,
\* show_loading_animation, the classifier (weights file missing or
\* predict_image raising), the flex reply, the reply of the except clause
ImageCollaborators == {"content", "typing", "predict", "reply", "error_reply"}

\* the first of these calls that raises ends the normal path, so at most one
\* of them fails in a turn
ImageRaisingCalls == {"content", "typing", "predict", "reply"}

ImageFailureSets ==
    {F \in SUBSET ImageCollaborators : Cardinality(F \cap ImageRaisingCalls) <= 1}

\* lines 417-489: the temporary file, the try block, the except clause and
\* the finally clause that removes the file
ImageTryBlock(u, state, hadSession, fail) ==
    LET exc     == IF "predict" \in fail THEN "predict"
                   ELSE IF "reply" \in fail THEN "reply" ELSE "none"
        raised  == exc # "none" /\ "error_reply" \in fail
        calls   == <<"content", "typing", "tempfile", "predict">>
                     \o (IF exc = "predict" THEN <<>> ELSE <<"reply">>)
                     \o (IF exc = "none" THEN <<>> ELSE <<"error_reply">>)
                     \o <<"remove">>
        replies == IF exc = "none" THEN <<Reply("flex", "", 0)>>
                   ELSE IF raised THEN <<>>
                   ELSE <<Reply("image_error", exc, 0)>>
    IN  Turn(u, <<>>, state, hadSession, "image", calls, exc, replies, raised)

\* handle_image_message: what the turn did; the calls of lines 409-412 are
\* made outside the try block
handle_image_message(cs, ss, u, fail) ==
    LET state == get_chat_state(cs, u)
        hadSession == u \in DOMAIN ss
    IN  IF "content" \in fail
        THEN Turn(u, <<>>, state, hadSession, "image", <<"content">>, "content",
                  <<>>, TRUE)
        ELSE IF "typing" \in fail
        THEN Turn(u, <<>>, state, hadSession, "image", <<"content", "typing">>,
                  "typing", <<>>, TRUE)
        ELSE ImageTryBlock(u, state, hadSession, fail)

\* ------------------------------------------------------------------
\* IoT readings (app/api/endpoints/iot.py)
\* ------------------------------------------------------------------
\* instants are days counted as date.toordinal does: datetime.min is day 1
DatetimeMin == 1
\* the day of datetime.utcnow() in the runs considered (2026-10-30)
Today == 739919

\* the value of datetime.utcnow() at the time of a request
NowValues == {Today}

\* the path parameter days: negative, zero, a week, and as many days as lie
\* between datetime.min and today, one too many for utcnow() = Today
DaysValues == {-1, 0, 7, Today}

Devices == {"D1", "D2"}

\* bodies of POST /iot/water-level/ (schema FieldWaterLevel): two ids, two
\* devices, create_time eight and seven days ago
WaterLevelData ==
    {[id |-> 1, device_id |-> "D1", water_level |-> 7, create_time |-> Today - 8],
     [id |-> 2, device_id |-> "D1", water_level |-> 7, create_time |-> Today - 7],
     [id |-> 1, device_id |-> "D2", water_level |-> 7, create_time |-> Today - 7],
     [id |-> 2, device_id |-> "D2", water_level |-> 7, create_time |-> Today - 8]}

\* bodies of POST /iot/field-stats/ (schema FieldStats)
FieldStatsData ==
    {[id |-> 1, device_id |-> "D1", soil_moisture |-> 40, soil_status |-> "dry",
      temperature |-> 30, create_time |-> Today - 8],
     [id |-> 2, device_id |-> "D1", soil_moisture |-> 40, soil_status |-> "dry",
      temperature |-> 30, create_time |-> Today - 7]}

\* a request to /iot/ and what it answers: status, detail of the error, the
\* rows of the body
IotResponse(op, request, status, detail, rows) ==
    [op |-> op, request |-> request, status |-> status, detail |-> detail,
     rows |-> rows]

NoIotResponse == IotResponse("none", <<>>, 0, "", <<>>)

\* the outcome of an operation on a table: the table after it, the response
IotOutcome(table, response) == [table |-> table, response |-> response]

\* the rows of the two tables are keyed by their id
HasKey(table, id) == \E i \in DOMAIN table : table[i].id = id

\* session.merge in place of session.add: a stored row of the same id is
\* overwritten
AddAndCommit_Merge(table, op, data, db_entry) ==
    IF HasKey(table, db_entry.id)
    THEN IotOutcome([i \in DOMAIN table |->
                        IF table[i].id = db_entry.id THEN db_entry ELSE table[i]],
                    IotResponse(op, data, 201, "", <<db_entry>>))
    ELSE IotOutcome(Append(table, db_entry),
                    IotResponse(op, data, 201, "", <<db_entry>>))

\* session.add(db_entry); commit(); refresh(db_entry): the commit of a row
\* whose id is stored raises IntegrityError
AddAndCommit(table, op, data, db_entry) ==
    IF HasKey(table, db_entry.id)
    THEN IotOutcome(table, IotResponse(op, data, 500, "IntegrityError", <<>>))
    ELSE IotOutcome(Append(table, db_entry),
                    IotResponse(op, data, 201, "", <<db_entry>>))

\* create_water_level, lines 24-29: the object built from the body
FieldWaterLevelModel(data) ==
    [id |-> data.id, device_id |-> data.device_id,
     water_level |-> data.water_level, create_time |-> data.create_time]

\* create_field_stats, lines 84-91: the object built from the body
FieldStatsModel(data) ==
    [id |-> data.id, device_id |-> data.device_id,
     soil_moisture |-> data.soil_moisture, soil_status |-> data.soil_status,
     temperature |-> data.temperature, create_time |-> data.create_time]

\* session.refresh(db_entry), lines 32 and 94: the stored row of the object's
\* id is read again
Refresh(table, db_entry) ==
    table[CHOOSE i \in DOMAIN table : table[i].id = db_entry.id]

\* a request to /iot/ whose handler stands at an await: pc names the call
\* awaited and whether the database has performed it, entry is the object a
\* create built, answer the response as far as it is determined
IotRequest(op, request, pc, entry, answer) ==
    [op |-> op, request |-> request, pc |-> pc, entry |-> entry, answer |-> answer]

NoIotRequest == IotRequest("none", <<>>, "idle", <<>>, NoIotResponse)

\* select(...).where(device_id == device_id) and scalar_one_or_none():
\* no row is 404, one row is returned, several rows raise MultipleResultsFound
GetByDevice(table, op, device_id, not_found) ==
    LET IsOfDevice(row) == row.device_id = device_id
        found == SelectSeq(table, IsOfDevice)
    IN  IF Len(found) = 0 THEN IotResponse(op, device_id, 404, not_found, <<>>)
        ELSE IF Len(found) = 1 THEN IotResponse(op, device_id, 200, "", found)
        ELSE IotResponse(op, device_id, 500, "MultipleResultsFound", <<>>)

\* get_water_level, lines 39-44
get_water_level(table, device_id) ==
    GetByDevice(table, "get_water_level", device_id, "Water level entry not found")

\* get_field_stats, lines 103-108
get_field_stats(table, device_id) ==
    GetByDevice(table, "get_field_stats", device_id, "Field stats entry not found")

\* get_all_water_levels, lines 52-55
get_all_water_levels(table) == IotResponse("get_all_water_levels", <<>>, 200, "", table)

\* get_all_field_stats, lines 116-119
get_all_field_stats(table) == IotResponse("get_all_field_stats", <<>>, 200, "", table)

\* lines 66-74 and 128-136: the check of days, start_time = utcnow() -
\* timedelta(days), which raises OverflowError below datetime.min, the select
GetRecent(table, op, days, now) ==
    LET request == [days |-> days, now |-> now]
        start_time == now - days
        IsRecent(row) == row.create_time >= start_time
    IN  IF days <= 0
        THEN IotResponse(op, request, 400, "The number of days must be greater than 0.",
                         <<>>)
        ELSE IF start_time < DatetimeMin
        THEN IotResponse(op, request, 500, "OverflowError", <<>>)
        ELSE IotResponse(op, request, 200, "", SelectSeq(table, IsRecent))

\* get_recent_water_levels, lines 63-74
get_recent_water_levels(table, days, now) ==
    GetRecent(table, "get_recent_water_levels", days, now)

\* get_recent_field_stats, lines 127-136
get_recent_field_stats(table, days, now) ==
    GetRecent(table, "get_recent_field_stats", days, now)

\* ------------------------------------------------------------------
\* POST /line-user/set-province (app/api/endpoints/line_user.py)
\* ------------------------------------------------------------------
\* a request to set-province and what it answers; province is the name in
\* the success message, writes the commits the database made for it
ProvinceResponse(user_id, province_name, status, detail, province, writes) ==
    [user_id |-> user_id, province_name |-> province_name, status |-> status,
     detail |-> detail, province |-> province, writes |-> writes]

NoProvinceResponse == ProvinceResponse("none", <<>>, 0, "", <<>>, 0)

\* a request to set-province in the handler: where it is, `result` of line
\* 34, result.province of line 38, the commits made for it, its answer
ProvinceRequest(user_id, province_name, pc, result, province, writes, answer) ==
    [user_id |-> user_id, province_name |-> province_name, pc |-> pc,
     result |-> result, province |-> province, writes |-> writes,
     answer |-> answer]

NoProvinceRequest ==
    ProvinceRequest("none", <<>>, "idle", "unset", <<>>, 0, NoProvinceResponse)

\* the handler returns or raises: the request has its answer
Answered(req, status, detail, province) ==
    [req EXCEPT !.pc = "answered",
                !.answer = ProvinceResponse(req.user_id, req.province_name, status,
                                            detail, province, req.writes)]

\* set_province that looks the user up before it checks the name
set_province_UserFirst(req) ==
    LET matched_province == MatchProvince(req.province_name)
    IN  CASE req.pc = "start" -> [req EXCEPT !.pc = "get"]
          [] req.pc = "got" ->
                IF req.result = None
                THEN Answered(req, 404, "User not found in the database.", <<>>)
                ELSE IF matched_province = NoProvince
                THEN Answered(req, 400, "Invalid province name. Please try again.", <<>>)
                ELSE [req EXCEPT !.pc = "commit",
                                 !.province = matched_province.name_th]
          [] req.pc = "committed" -> Answered(req, 200, "", matched_province.name_th)
          [] req.pc = "raised" -> Answered(req, 500, "Internal Server Error", <<>>)

\* set_province, lines 11-42, from where the request is to its next await
\* or to its answer: lines 22-34 from the start, lines 35-40 when
\* session.get has returned, line 42 when session.commit has returned. An
\* exception of session.get or of session.commit is caught nowhere and
\* leaves the handler: the answer is 500
set_province(req) ==
    LET matched_province == MatchProvince(req.province_name)
    IN  CASE req.pc = "start" ->
                IF matched_province = NoProvince
                THEN Answered(req, 400, "Invalid province name. Please try again.", <<>>)
                ELSE [req EXCEPT !.pc = "get"]
          [] req.pc = "got" ->
                IF req.result = None
                THEN Answered(req, 404, "User not found in the database.", <<>>)
                ELSE [req EXCEPT !.pc = "commit",
                                 !.province = matched_province.name_th]
          [] req.pc = "committed" -> Answered(req, 200, "", matched_province.name_th)
          [] req.pc = "raised" -> Answered(req, 500, "Internal Server Error", <<>>)

\* ------------------------------------------------------------------
\* The event loop that serves POST /line/webhook (line_webhook.py:185-201)
\* ------------------------------------------------------------------
\* the event of a delivery that handle_text_message is handling: the state
\* and the membership read at lines 218-220 and the branch they select
LoopEvent(u, text, state, hadSession, branch) ==
    [user |-> u, text |-> text, state |-> state, hadSession |-> hadSession,
     branch |-> branch]

NoLoopEvent == LoopEvent("none", <<>>, None, FALSE, "none")

\* one call of the coroutine line_webhook: where it is, how many events of
\* its body handler.handle has still to dispatch, how many it dispatched
Delivery(pc, remaining, handled, event) ==
    [pc |-> pc, remaining |-> remaining, handled |-> handled, event |-> event]

\* the loop: the calls of line_webhook, those of them that are executing,
\* the calls in the order in which handler.handle was entered, the turns
\* in the order in which they ended
Loop(deliveries, running, order, log) ==
    [deliveries |-> deliveries, running |-> running, order |-> order, log |-> log]

IdleLoop == Loop(<<>>, {}, <<>>, <<>>)

\* ------------------------------------------------------------------
\* get_farm_news (line_webhook.py:131-147)
\* ------------------------------------------------------------------
\* a key the item does not have
Missing == "Missing"

\* the items of a result list: dicts with or without the keys "title" and
\* "url", and a value that is no dict (item.get raises AttributeError)
NotADict == [dict |-> FALSE, title |-> Missing, url |-> Missing]

NewsItems ==
    [dict : {TRUE}, title : {"T1", "T2", Missing}, url : {"L1", Missing}]
      \cup {NotADict}

\* what tavily_client.search does: it raises, or returns a dict without the
\* key "results", or a dict whose "results" is a list of items
SearchResponses ==
    {[kind |-> "raises", results |-> <<>>], [kind |-> "no_key", results |-> <<>>]}
      \cup {[kind |-> "results", results |-> rs] :
               rs \in UNION {[1..n -> NewsItems] : n \in 0..MaxItems}}

\* results[:3]
FirstThree(results) ==
    SubSeq(results, 1, IF Len(results) < 3 THEN Len(results) ELSE 3)

\* item.get(key, default)
ItemGet(item, key, default) == IF item[key] = Missing THEN default ELSE item[key]

\* line 143: one entry "{i}. {title}\n{url}\n" of the news text
NewsEntry(i, item) ==
    [i |-> i, title |-> ItemGet(item, "title", "NoTitle"),
     url |-> ItemGet(item, "url", "NoUrl")]

\* what get_farm_news returns: the kind of text and its entries
NewsText(kind, detail, entries) == [kind |-> kind, detail |-> detail, entries |-> entries]

\* outcome of the try block: the exception raised in it ("none" if none)
\* and the text it returned
NewsOutcome(exc, text) == [exc |-> exc, text |-> text]

\* the entries of the items, or the exception of the first item that is no dict
NewsEntries(items) ==
    IF \E i \in DOMAIN items : ~items[i].dict
    THEN NewsOutcome("AttributeError", NewsText("none", "", <<>>))
    ELSE NewsOutcome("none",
                     NewsText("news", "", [i \in DOMAIN items |-> NewsEntry(i, items[i])]))

\* the try block that lists every result
NewsTryBlock_All(search) ==
    IF search.kind = "raises" THEN NewsOutcome("search", NewsText("none", "", <<>>))
    ELSE IF search.kind = "no_key" \/ search.results = <<>>
    THEN NewsOutcome("none", NewsText("no_news", "", <<>>))
    ELSE NewsEntries(search.results)

\* lines 133-145: the search, the fixed text for no result, the entries of
\* the first three results
NewsTryBlock(search) ==
    IF search.kind = "raises" THEN NewsOutcome("search", NewsText("none", "", <<>>))
    ELSE IF search.kind = "no_key" \/ search.results = <<>>
    THEN NewsOutcome("none", NewsText("no_news", "", <<>>))
    ELSE NewsEntries(FirstThree(search.results))

\* the exceptions that `except Exception` catches: every exception of the
\* try block
CaughtByExcept == {"search", "AttributeError"}

\* lines 132-147: the text of the try block, or the text of the except
\* clause for the exception it caught; an exception not caught leaves the
\* function
get_farm_news_text(search) ==
    LET o == NewsTryBlock(search)
    IN  IF o.exc = "none" THEN [text |-> o.text, raised |-> FALSE]
        ELSE IF o.exc \in CaughtByExcept
        THEN [text |-> NewsText("news_error", o.exc, <<>>), raised |-> FALSE]
        ELSE [text |-> NewsText("none", "", <<>>), raised |-> TRUE]

\* the call of get_farm_news: the response of the search, what the function
\* returned and whether an exception left it
News(search, text, raised) == [search |-> search, text |-> text, raised |-> raised]

NoNews == News([kind |-> "none", results |-> <<>>], NewsText("none", "", <<>>), FALSE)

\* ------------------------------------------------------------------
\* State of the webhook process
\* ------------------------------------------------------------------
VARIABLES
    chat_states,    \* dict user_id -> state (line_webhook.py:50)
    chat_sessions,  \* dict user_id -> ChatSession (line_webhook.py:49)
    awaiting_body,  \* the calls of line_webhook suspended at line 194, by signature header
    request,        \* the delivery POST /line/webhook is handling
    turn,           \* the turn of the event dispatched last in this delivery
    response,       \* the HTTP response of the last delivery
    user_states,    \* LineMessageHandler.user_states (message_handler.py:21)
    line_users,     \* table LineUser: user_id -> province
    session_objs,   \* per AsyncSession, the LineUser objects changed and not yet committed
    tasks,          \* the coroutines of _process_event that handle() gathers
    gather,         \* the calls of LineMessageHandler.handle made so far
    carbon_request, \* body of the last POST /carbon-credit/
    carbon_response, \* response of the last POST /carbon-credit/
    iot_water,      \* table FieldWaterLevel, rows in the order of insertion
    iot_stats,      \* table FieldStats, rows in the order of insertion
    iot_response,   \* the last request to /iot/ answered and its response
    iot_requests,   \* the requests to /iot/ in flight, by slot (a sequence)
    province_response, \* the last POST /line-user/set-province answered and its response
    province_requests, \* the requests to set-province in flight
    loop,           \* the event loop of the process that serves POST /line/webhook
    news            \* the last call of get_farm_news and what it returned

wvars == <<chat_states, chat_sessions, awaiting_body, request, turn, response>>
hvars == <<user_states, line_users, session_objs, tasks, gather>>
cvars == <<carbon_request, carbon_response>>
ivars == <<iot_water, iot_stats, iot_response, iot_requests>>
pvars == <<province_response, province_requests>>
lvars == <<loop>>
nvars == <<news>>
vars == <<wvars, hvars, cvars, ivars, pvars, lvars, nvars>>

EmptyDict == [x \in {} |-> None]

\* LineUser.province of a user whose province was never set
Unset == <<>>

\* X-Line-Signature of a delivery: header absent, header empty, a signature
\* the verification rejects, a signature it accepts
Signatures == {"absent", "empty", "invalid", "valid"}

\* the headers that pass `if not signature`, line 192
HeaderSignatures == {"invalid", "valid"}

\* the bytes of the body of a delivery: UTF-8 or not
Bodies == {"utf8", "not_utf8"}

\* no call of line_webhook awaits its body
NoneAwaiting == [sig \in HeaderSignatures |-> 0]

\* a call of LineMessageHandler.handle: whether it awaits its gather or has
\* ended, user_states when it began, its session, whether an exception
\* ended it
Gather(phase, pre, session, raised) ==
    [phase |-> phase, pre |-> pre, session |-> session, raised |-> raised]

\* a delivery to POST /line/webhook: how far line_webhook has come with it,
\* its signature header, its body, the events left and the events handled
Request(phase, sig, body, remaining, handled) ==
    [phase |-> phase, sig |-> sig, body |-> body, remaining |-> remaining,
     handled |-> handled]

Response(status, detail) == [status |-> status, detail |-> detail]

Init ==
    /\ chat_states = EmptyDict
    /\ chat_sessions = EmptyDict
    /\ awaiting_body = NoneAwaiting
    /\ request = Request("idle", "valid", "utf8", 0, 0)
    /\ turn = NoTurn
    /\ response = Response(0, "")
    /\ user_states = EmptyDict
    /\ line_users = [x \in {"U1"} |-> Unset]
    /\ session_objs = EmptyDict
    /\ tasks = <<>>
    /\ gather = <<>>
    /\ carbon_request = NoCarbonRequest
    /\ carbon_response = NoCarbonResponse
    /\ iot_water = <<>>
    /\ iot_stats = <<>>
    /\ iot_response = NoIotResponse
    /\ iot_requests = <<>>
    /\ province_response = NoProvinceResponse
    /\ province_requests = <<>>
    /\ loop = IdleLoop
    /\ news = NoNews

\* the calls of line_webhook that await their body
AwaitingBody == awaiting_body["invalid"] + awaiting_body["valid"]

\* line_webhook, lines 190-194: the coroutine is called when no other
\* executes, reads the header and raises 400 when it is missing or empty;
\* otherwise it suspends at `await request.body()` and the loop is free for
\* other calls. MaxInFlight calls at most are suspended at a time
LineWebhook(sig) ==
    /\ request.phase = "idle"
    /\ UNCHANGED <<chat_states, chat_sessions>>
    /\ UNCHANGED <<hvars, cvars, ivars, pvars, lvars, nvars>>
    /\ IF sig \in {"absent", "empty"}
       THEN /\ request' = Request("idle", sig, None, 0, 0)
            /\ response' = Response(400, "Missing signature header.")
            /\ turn' = NoTurn
            /\ UNCHANGED awaiting_body
       ELSE /\ AwaitingBody < MaxInFlight
            /\ awaiting_body' = [awaiting_body EXCEPT ![sig] = @ + 1]
            /\ UNCHANGED <<request, turn, response>>

\* line_webhook, lines 194-199: the body of a suspended call has arrived and
\* the loop resumes the call when no other executes: body.decode("utf-8"),
\* whose UnicodeDecodeError no except clause catches, and the signature
\* verification that handler.handle does before it dispatches any event.
\* The handler is linebot.v3.WebhookHandler (line 15) and the class the
\* except clause names is linebot.exceptions.InvalidSignatureError (line
\* 14); the SDK is no part of the repository: the exception of a rejected
\* signature is that class, and the answer 400, or it is not, and the
\* answer 500
RequestBody(sig, body, n) ==
    /\ request.phase = "idle"
    /\ sig \in HeaderSignatures
    /\ awaiting_body[sig] > 0
    /\ awaiting_body' = [awaiting_body EXCEPT ![sig] = @ - 1]
    /\ turn' = NoTurn
    /\ UNCHANGED <<chat_states, chat_sessions>>
    /\ UNCHANGED <<hvars, cvars, ivars, pvars, lvars, nvars>>
    /\ IF body = "not_utf8"
       THEN /\ request' = Request("idle", sig, body, 0, 0)
            /\ response' = Response(500, "Internal Server Error")
       ELSE IF sig = "invalid"
       THEN /\ request' = Request("idle", sig, body, 0, 0)
            /\ response' \in {Response(400, "Invalid signature."),
                              Response(500, "Internal Server Error")}
       ELSE /\ request' = Request("dispatch", sig, body, n, 0)
            /\ response' = Response(0, "")

\* the effect of one turn r of handle_text_message on the process: an
\* exception that leaves the handler leaves handler.handle and line_webhook
TurnStep(r) ==
    /\ chat_states' = r.cs
    /\ chat_sessions' = r.ss
    /\ turn' = r.turn
    /\ UNCHANGED awaiting_body
    /\ IF r.turn.raised
       THEN /\ request' = Request("idle", request.sig, request.body, 0, request.handled + 1)
            /\ response' = Response(500, "Internal Server Error")
       ELSE /\ request' = Request("handled", request.sig, request.body,
                                  request.remaining - 1, request.handled + 1)
            /\ UNCHANGED response

\* handler.handle dispatches the next event to handle_text_message
HandleTextMessage(u, text, env) ==
    /\ request.phase = "dispatch"
    /\ request.remaining > 0
    /\ UNCHANGED <<hvars, cvars, ivars, pvars, lvars, nvars>>
    /\ TurnStep(handle_text_message(chat_states, chat_sessions, u, text, env))

\* handler.handle dispatches the next event to handle_image_message, which
\* changes neither dict
HandleImageMessage(u, fail) ==
    /\ request.phase = "dispatch"
    /\ request.remaining > 0
    /\ UNCHANGED <<hvars, cvars, ivars, pvars, lvars, nvars>>
    /\ TurnStep([cs |-> chat_states, ss |-> chat_sessions,
                 turn |-> handle_image_message(chat_states, chat_sessions, u, fail)])

\* the dispatch loop of handler.handle moves on to the next event
NextEvent ==
    /\ request.phase = "handled"
    /\ request' = [request EXCEPT !.phase = "dispatch"]
    /\ turn' = NoTurn
    /\ UNCHANGED <<chat_states, chat_sessions, awaiting_body, response>>
    /\ UNCHANGED <<hvars, cvars, ivars, pvars, lvars, nvars>>

\* line_webhook, line 201
WebhookReturn ==
    /\ request.phase = "dispatch"
    /\ request.remaining = 0
    /\ request' = [request EXCEPT !.phase = "idle"]
    /\ response' = Response(200, "Webhook processed successfully.")
    /\ UNCHANGED <<chat_states, chat_sessions, awaiting_body, turn>>
    /\ UNCHANGED <<hvars, cvars, ivars, pvars, lvars, nvars>>

Next ==
    \/ \E sig \in Signatures : LineWebhook(sig)
    \/ \E sig \in HeaderSignatures, body \in Bodies, n \in 0..MaxEvents :
          RequestBody(sig, body, n)
    \/ \E u \in Users, text \in WebhookTexts, env \in Envs : HandleTextMessage(u, text, env)
    \/ \E u \in Users, fail \in ImageFailureSets : HandleImageMessage(u, fail)
    \/ NextEvent
    \/ WebhookReturn

Spec == Init /\ [][Next]_vars

\* ------------------------------------------------------------------
\* The reply to the carbon-credit prompt (line_webhook.py:353-376): the turn
\* of a user who is in awaiting_carbon_credit_data and has a chat handle
\* ------------------------------------------------------------------
\* "5<U+3000><rai>,<U+2003>120 <days>": white space outside Latin-1
CarbonDataWideSpace ==
    <<53, 12288>> \o LitRai \o <<8195, 49, 50, 48, 32>> \o LitWan
\* the same numbers in Arabic-Indic and in fullwidth digits
CarbonDataOtherDigits ==
    <<1637, 32>> \o LitRai \o <<32, 65297, 65298, 65296, 32>> \o LitWan
\* a harvest age of 4301 digits
CarbonDataLongAge ==
    <<53, 32>> \o LitRai \o <<32>> \o [i \in 1..(MaxStrDigits + 1) |-> 49]
        \o <<32>> \o LitWan
\* an area of 309 nines
CarbonDataHugeArea ==
    [i \in 1..Len(FloatOverflow) |-> 57] \o <<32>> \o LitRai \o <<32, 49, 50, 48, 32>>
        \o LitWan

ParseTexts ==
    { CarbonData, CarbonDataZero, CarbonDataNoComma, Abc, CarbonDataWideSpace,
      CarbonDataOtherDigits, CarbonDataLongAge, CarbonDataHugeArea }

\* a delivery of one event is being dispatched; its user asked for the
\* carbon credit in an earlier turn, after a free-form turn
InitParse ==
    /\ chat_states = [x \in {"U1"} |-> "awaiting_carbon_credit_data"]
    /\ chat_sessions = [x \in {"U1"} |-> ChatSession]
    /\ awaiting_body = NoneAwaiting
    /\ request = Request("dispatch", "valid", "utf8", 1, 0)
    /\ turn = NoTurn
    /\ response = Response(0, "")
    /\ user_states = EmptyDict
    /\ line_users = [x \in {"U1"} |-> Unset]
    /\ session_objs = EmptyDict
    /\ tasks = <<>>
    /\ gather = <<>>
    /\ carbon_request = NoCarbonRequest
    /\ carbon_response = NoCarbonResponse
    /\ iot_water = <<>>
    /\ iot_stats = <<>>
    /\ iot_response = NoIotResponse
    /\ iot_requests = <<>>
    /\ province_response = NoProvinceResponse
    /\ province_requests = <<>>
    /\ loop = IdleLoop
    /\ news = NoNews

NextParse ==
    \/ \E text \in ParseTexts, env \in Envs : HandleTextMessage("U1", text, env)
    \/ NextEvent
    \/ WebhookReturn

SpecParse == InitParse /\ [][NextParse]_vars

\* every reply to the prompt that matches the pattern ends in the error
\* reply and leaves the state: int() raised ValueError or the call of
\* estimate_methane_emission raised TypeError; every other reply gets the
\* format error and resets the state
ParseOutcome ==
    (turn.user = "U1" /\ turn.exc \notin Collaborators) =>
        LET match == CarbonDataMatch(turn.text)
        IN  IF match.matched
            THEN /\ turn.exc = (IF match.harvest_age.exc = "none" THEN "TypeError"
                                ELSE "ValueError")
                 /\ get_chat_state(chat_states, "U1") = "awaiting_carbon_credit_data"
            ELSE /\ turn.exc = "none"
                 /\ get_chat_state(chat_states, "U1") = None

\* the texts of ParseTexts that match the pattern
ParseMatches ==
    /\ \A text \in ParseTexts \ {CarbonDataNoComma, Abc} : CarbonDataMatch(text).matched
    /\ ~CarbonDataMatch(CarbonDataNoComma).matched
    /\ ~CarbonDataMatch(Abc).matched
    /\ CarbonDataMatch(CarbonDataWideSpace) = CarbonDataMatch(CarbonData)
    /\ CarbonDataMatch(CarbonDataOtherDigits) = CarbonDataMatch(CarbonData)
    /\ CarbonDataMatch(CarbonDataLongAge).harvest_age.exc = "ValueError"
    /\ CarbonDataMatch(CarbonDataHugeArea).area.inf

\* ------------------------------------------------------------------
\* POST /carbon-credit/ (app/api/endpoints/carbon_credit.py)
\* ------------------------------------------------------------------
\* the bodies posted: whole numbers of rai and of days, zero and negative
\* ones included
CarbonRequests == [area : (-1)..MaxArea, harvest_age : (-1)..MaxHarvestAge]

\* one request to POST /carbon-credit/ and its response
CalculateCarbonCredit(data) ==
    /\ carbon_request' = data
    /\ carbon_response' = calculate_carbon_credit(data)
    /\ UNCHANGED <<wvars, hvars, ivars, pvars, lvars, nvars>>

\* the endpoint keeps no state: a client posts a body, and may post it again
NextCarbon ==
    \E data \in CarbonRequests :
        /\ carbon_response.status = 0 \/ data = carbon_request
        /\ CalculateCarbonCredit(data)

SpecCarbon == Init /\ [][NextCarbon]_vars

\* ------------------------------------------------------------------
\* The endpoints of /iot/ (app/api/endpoints/iot.py)
\* ------------------------------------------------------------------
\* the requests in flight, the rows a commit awaited may still add included
InFlight == {i \in DOMAIN iot_requests : iot_requests[i].pc # "idle"}

IotLoad ==
    Len(iot_water) + Len(iot_stats)
      + Cardinality({i \in InFlight : iot_requests[i].pc = "commit"})

\* the first slot that holds no request in flight
FreeSlot ==
    CHOOSE i \in 1..(Len(iot_requests) + 1) :
        i \notin InFlight /\ \A j \in 1..(i - 1) : j \in InFlight

\* the slots up to the last request in flight
Trim(requests) ==
    SubSeq(requests, 1,
           IF \A i \in DOMAIN requests : requests[i].pc = "idle" THEN 0
           ELSE CHOOSE i \in DOMAIN requests :
                    /\ requests[i].pc # "idle"
                    /\ \A j \in (i + 1)..Len(requests) : requests[j].pc = "idle")

\* a handler ran to its first await: the request is in flight
IotStart(req) ==
    /\ iot_requests' =
         [i \in DOMAIN iot_requests \cup {FreeSlot} |->
             IF i = FreeSlot THEN req ELSE iot_requests[i]]
    /\ UNCHANGED <<iot_water, iot_stats, iot_response, pvars,
                   wvars, hvars, cvars, lvars, nvars>>

\* a handler ended before any await
IotRaise(answer) ==
    /\ iot_response' = answer
    /\ UNCHANGED <<iot_water, iot_stats, iot_requests, pvars,
                   wvars, hvars, cvars, lvars, nvars>>

\* POST /iot/water-level/, lines 24-31: up to await session.commit()
CreateWaterLevel(data) ==
    IotStart(IotRequest("create_water_level", data, "commit",
                        FieldWaterLevelModel(data), NoIotResponse))

\* POST /iot/field-stats/, lines 84-93: up to await session.commit()
CreateFieldStats(data) ==
    IotStart(IotRequest("create_field_stats", data, "commit",
                        FieldStatsModel(data), NoIotResponse))

\* GET /iot/water-level/{device_id}, line 40: up to await session.execute()
GetWaterLevel(device_id) ==
    IotStart(IotRequest("get_water_level", device_id, "execute", <<>>, NoIotResponse))

\* GET /iot/field-stats/{device_id}, line 104
GetFieldStats(device_id) ==
    IotStart(IotRequest("get_field_stats", device_id, "execute", <<>>, NoIotResponse))

\* GET /iot/water-level/, line 53
GetAllWaterLevels ==
    IotStart(IotRequest("get_all_water_levels", <<>>, "execute", <<>>, NoIotResponse))

\* GET /iot/field-stats/, line 117
GetAllFieldStats ==
    IotStart(IotRequest("get_all_field_stats", <<>>, "execute", <<>>, NoIotResponse))

\* lines 66-72 and 128-134: the check of days and the subtraction end the
\* handler before any await; otherwise it awaits session.execute()
GetRecentStart(op, days, now) ==
    LET early == GetRecent(<<>>, op, days, now)
    IN  IF early.status # 200
        THEN IotRaise(early)
        ELSE IotStart(IotRequest(op, [days |-> days, now |-> now], "execute", <<>>,
                                 NoIotResponse))

\* GET /iot/water-level/recent/{days}
GetRecentWaterLevels(days, now) == GetRecentStart("get_recent_water_levels", days, now)

\* GET /iot/field-stats/recent/{days}
GetRecentFieldStats(days, now) == GetRecentStart("get_recent_field_stats", days, now)

\* the database performs the commit a create awaits (lines 31 and 93): the
\* row is stored, or IntegrityError is raised into the handler
DbCommit(i) ==
    LET req == iot_requests[i]
        water == req.op = "create_water_level"
        r == AddAndCommit(IF water THEN iot_water ELSE iot_stats,
                          req.op, req.request, req.entry)
    IN  /\ req.pc = "commit"
        /\ iot_water' = IF water THEN r.table ELSE iot_water
        /\ iot_stats' = IF water THEN iot_stats ELSE r.table
        /\ iot_requests' =
             [iot_requests EXCEPT
                ![i].pc = IF r.response.status = 201 THEN "committed" ELSE "raised",
                ![i].answer = r.response]
        /\ UNCHANGED <<iot_response, pvars,
                       wvars, hvars, cvars, lvars, nvars>>

\* the handler of a create goes on after the commit, lines 32 and 94: up to
\* await session.refresh(db_entry)
AwaitRefresh(i) ==
    /\ iot_requests[i].pc = "committed"
    /\ iot_requests' = [iot_requests EXCEPT ![i].pc = "refresh"]
    /\ UNCHANGED <<iot_water, iot_stats, iot_response, pvars,
                   wvars, hvars, cvars, lvars, nvars>>

\* the database performs the refresh awaited
DbRefresh(i) ==
    LET req == iot_requests[i]
        row == Refresh(IF req.op = "create_water_level" THEN iot_water ELSE iot_stats,
                       req.entry)
    IN  /\ req.pc = "refresh"
        /\ iot_requests' =
             [iot_requests EXCEPT
                ![i].pc = "refreshed",
                ![i].entry = row,
                ![i].answer = IotResponse(req.op, req.request, 201, "", <<row>>)]
        /\ UNCHANGED <<iot_water, iot_stats, iot_response, pvars,
                       wvars, hvars, cvars, lvars, nvars>>

\* what the lines after await session.execute() make of the rows selected
Executed(req) ==
    CASE req.op = "get_water_level" -> get_water_level(iot_water, req.request)
      [] req.op = "get_field_stats" -> get_field_stats(iot_stats, req.request)
      [] req.op = "get_all_water_levels" -> get_all_water_levels(iot_water)
      [] req.op = "get_all_field_stats" -> get_all_field_stats(iot_stats)
      [] req.op = "get_recent_water_levels" ->
            get_recent_water_levels(iot_water, req.request.days, req.request.now)
      [] req.op = "get_recent_field_stats" ->
            get_recent_field_stats(iot_stats, req.request.days, req.request.now)

\* the database performs the select a GET awaits
DbExecute(i) ==
    /\ iot_requests[i].pc = "execute"
    /\ iot_requests' = [iot_requests EXCEPT ![i].pc = "executed",
                                            ![i].answer = Executed(iot_requests[i])]
    /\ UNCHANGED <<iot_water, iot_stats, iot_response, pvars,
                   wvars, hvars, cvars, lvars, nvars>>

\* the handler returns or raises: the request is answered
IotAnswer(i) ==
    /\ iot_requests[i].pc \in {"refreshed", "executed", "raised"}
    /\ iot_response' = iot_requests[i].answer
    /\ iot_requests' = Trim([iot_requests EXCEPT ![i] = NoIotRequest])
    /\ UNCHANGED <<iot_water, iot_stats, pvars,
                   wvars, hvars, cvars, lvars, nvars>>

\* a request is taken while fewer than MaxInFlight are in flight
CanStart == Cardinality(InFlight) < MaxInFlight

\* a POST is taken while the tables have room for its row or hold its id
HasRoom(table, data) == IotLoad < MaxRows \/ HasKey(table, data.id)

NextIot ==
    \/ CanStart /\ \E data \in WaterLevelData :
                      HasRoom(iot_water, data) /\ CreateWaterLevel(data)
    \/ CanStart /\ \E data \in FieldStatsData :
                      HasRoom(iot_stats, data) /\ CreateFieldStats(data)
    \/ CanStart /\ \E device_id \in Devices : GetWaterLevel(device_id)
    \/ CanStart /\ \E device_id \in Devices : GetFieldStats(device_id)
    \/ CanStart /\ GetAllWaterLevels
    \/ CanStart /\ GetAllFieldStats
    \/ CanStart /\ \E days \in DaysValues, now \in NowValues :
                      GetRecentWaterLevels(days, now)
    \/ CanStart /\ \E days \in DaysValues, now \in NowValues :
                      GetRecentFieldStats(days, now)
    \/ \E i \in DOMAIN iot_requests : DbCommit(i)
    \/ \E i \in DOMAIN iot_requests : AwaitRefresh(i)
    \/ \E i \in DOMAIN iot_requests : DbRefresh(i)
    \/ \E i \in DOMAIN iot_requests : DbExecute(i)
    \/ \E i \in DOMAIN iot_requests : IotAnswer(i)

SpecIot == Init /\ [][NextIot]_vars

\* ------------------------------------------------------------------
\* LineMessageHandler (app/core/handlers/message_handler.py)
\* ------------------------------------------------------------------
\* message texts the environment sends to LineMessageHandler
\* the trigger between an ideographic space (U+3000) and a space
SettingPadded == <<12288>> \o KwSetting \o Sp

HandlerTexts ==
    { KwSetting, SettingPadded, Abc, SuphanTh, KoratEn, Sp \o SuphanEn }

DictGet(d, k) == IF k \in DOMAIN d THEN d[k] ELSE None

\* d.pop(k, None)
DictPop(d, k) == [x \in (DOMAIN d) \ {k} |-> d[x]]

\* _handle_province_setting that passes on the name as the user typed it
handle_province_setting_AsTyped(received_text) ==
    LET matched_province == MatchProvince(received_text)
    IN  [matched_province |-> matched_province, province_name |-> received_text]

\* _handle_province_setting, lines 57-66, up to its first await: the
\* province matched and the name it passes to _update_user_province
handle_province_setting(received_text) ==
    LET matched_province == MatchProvince(received_text)
    IN  [matched_province |-> matched_province,
         province_name |-> matched_province.name_th]

\* _process_event up to its first await, lines 34-41 and 57-66: the state
\* check, the trigger, the province match; no await lies in between
ProcessStart(us, u, text) ==
    LET received_text == Strip(text)
    IN  IF DictGet(us, u) = "setting_province"
        THEN [us |-> us, handling |-> "province",
              province |-> handle_province_setting(received_text).matched_province,
              province_name |-> handle_province_setting(received_text).province_name]
        ELSE IF received_text = KwSetting
        THEN [us |-> DictSet(us, u, "setting_province"), handling |-> "trigger",
              province |-> NoProvince, province_name |-> <<>>]
        ELSE [us |-> us, handling |-> "echo", province |-> NoProvince,
              province_name |-> <<>>]

\* one coroutine of _process_event: its event, where it is suspended, what
\* it read and did, and the session of the call of handle() that made it
Task(u, text, pc, pre, handling, province, province_name, msg, writes, replies, session) ==
    [user |-> u, text |-> text, pc |-> pc, pre |-> pre, handling |-> handling,
     province |-> province, province_name |-> province_name, msg |-> msg,
     writes |-> writes, replies |-> replies, session |-> session]

\* the task has not ended
IsPending(t) == t.pc \notin {"done", "raised"}

\* the call of handle() awaits its gather
IsRunning(call) == call.phase = "running"

\* the session that `deps.get_session()` opens for a call: a new one
NewSession == Len(gather) + 1

\* the tasks of a call of handle()
GatheredTasks(call) == {i \in DOMAIN tasks : tasks[i].session = call.session}

\* handle, lines 24-31: a session is opened, one coroutine per text event is
\* made and asyncio.gather is awaited. Nothing keeps a call from being made
\* while earlier calls await their gather: the tasks of all of them are on
\* the event loop
Handle(events) ==
    /\ tasks' = tasks \o
                 [i \in DOMAIN events |->
                    Task(events[i].user, events[i].text, "created", None, "none",
                         NoProvince, <<>>, "none", 0, 0, NewSession)]
    /\ gather' = Append(gather, Gather("running", user_states, NewSession, FALSE))
    /\ session_objs' = [s \in DOMAIN session_objs \cup {NewSession} |->
                          IF s = NewSession THEN EmptyDict ELSE session_objs[s]]
    /\ UNCHANGED <<user_states, line_users>>
    /\ UNCHANGED <<wvars, cvars, ivars, pvars, lvars, nvars>>

\* task i runs from its start to its first await; the event loop starts the
\* tasks in the order in which the gathers scheduled them
TaskStart(i) ==
    /\ i \in DOMAIN tasks
    /\ tasks[i].pc = "created"
    /\ \A j \in 1..(i - 1) : tasks[j].pc # "created"
    /\ LET t == tasks[i]
           s == ProcessStart(user_states, t.user, t.text)
           pc == IF s.handling = "province" /\ s.province # NoProvince
                 THEN "execute" ELSE "reply"
           msg == IF s.handling = "trigger" THEN "province_prompt"
                  ELSE IF s.handling = "echo" THEN "echo"
                  ELSE IF s.province = NoProvince THEN "invalid_province"
                  ELSE "none"
       IN  /\ user_states' = s.us
           /\ tasks' = [tasks EXCEPT ![i] =
                          Task(t.user, t.text, pc, DictGet(user_states, t.user),
                               s.handling, s.province, s.province_name, msg, 0, 0,
                               t.session)]
    /\ UNCHANGED <<line_users, session_objs, gather>>
    /\ UNCHANGED <<wvars, cvars, ivars, pvars, lvars, nvars>>

\* _update_user_province, lines 83-88: the select returns, the province of
\* the LineUser object is set in the session and the commit is awaited
TaskExecute(i) ==
    /\ i \in DOMAIN tasks
    /\ tasks[i].pc = "execute"
    /\ LET t == tasks[i]
       IN  IF t.user \in DOMAIN line_users
           THEN /\ session_objs' =
                      [session_objs EXCEPT ![t.session] = DictSet(@, t.user, t.province_name)]
                /\ tasks' = [tasks EXCEPT ![i].pc = "commit"]
           ELSE /\ tasks' = [tasks EXCEPT ![i].pc = "reply", ![i].msg = "user_not_found"]
                /\ UNCHANGED session_objs
    /\ UNCHANGED <<user_states, line_users, gather>>
    /\ UNCHANGED <<wvars, cvars, ivars, pvars, lvars, nvars>>

\* session.commit() returns, lines 88-89: every changed object of the
\* session of the task is written
TaskCommit(i) ==
    /\ i \in DOMAIN tasks
    /\ tasks[i].pc = "commit"
    /\ line_users' = [x \in DOMAIN line_users |->
                        IF x \in DOMAIN session_objs[tasks[i].session]
                        THEN session_objs[tasks[i].session][x]
                        ELSE line_users[x]]
    /\ session_objs' = [session_objs EXCEPT ![tasks[i].session] = EmptyDict]
    /\ tasks' = [tasks EXCEPT ![i].pc = "reply", ![i].msg = "province_set",
                              ![i].writes = @ + 1]
    /\ UNCHANGED <<user_states, gather>>
    /\ UNCHANGED <<wvars, cvars, ivars, pvars, lvars, nvars>>

\* reply_message returns; _handle_province_setting then resets the state,
\* line 80
TaskReply(i) ==
    /\ i \in DOMAIN tasks
    /\ tasks[i].pc = "reply"
    /\ tasks' = [tasks EXCEPT ![i].pc = "done", ![i].replies = @ + 1]
    /\ user_states' = IF tasks[i].handling = "province"
                      THEN DictPop(user_states, tasks[i].user)
                      ELSE user_states
    /\ UNCHANGED <<line_users, session_objs, gather>>
    /\ UNCHANGED <<wvars, cvars, ivars, pvars, lvars, nvars>>

\* the call task i awaits (the select, the commit or reply_message) raises:
\* no except clause encloses it, the exception ends the task before line 80
TaskRaise(i) ==
    /\ i \in DOMAIN tasks
    /\ tasks[i].pc \in {"execute", "commit", "reply"}
    /\ tasks' = [tasks EXCEPT ![i].pc = "raised", ![i].msg = tasks[i].pc]
    /\ UNCHANGED <<user_states, line_users, session_objs, gather>>
    /\ UNCHANGED <<wvars, cvars, ivars, pvars, lvars, nvars>>

\* line 31: asyncio.gather of call k returns when every task of the call has
\* ended, and raises as soon as one of them has raised; handle() ends, the
\* `async with` block is left and the session is closed. The tasks that
\* have not ended stay on the event loop and go on: the calls they await on
\* the closed session return (TaskExecute, TaskCommit) or raise (TaskRaise)
GatherDone(k) ==
    /\ k \in DOMAIN gather
    /\ IsRunning(gather[k])
    /\ \/ \A i \in GatheredTasks(gather[k]) : ~IsPending(tasks[i])
       \/ \E i \in GatheredTasks(gather[k]) : tasks[i].pc = "raised"
    /\ gather' = [gather EXCEPT ![k].phase = "ended",
                                ![k].raised = \E i \in GatheredTasks(gather[k]) :
                                                  tasks[i].pc = "raised"]
    /\ UNCHANGED <<user_states, line_users, session_objs, tasks>>
    /\ UNCHANGED <<wvars, cvars, ivars, pvars, lvars, nvars>>

\* texts of the events of a delivery whose tasks run side by side: the
\* trigger, a province name to strip and match, a text that is neither
GatherTexts == {KwSetting, Sp \o SuphanEn, Abc}

HandlerEvents == [user : Users, text : GatherTexts]

EventSeqs == UNION {[1..n -> HandlerEvents] : n \in 0..MaxEvents}

\* user_states when the first call is made: any state earlier turns can
\* have left
InitUserStates ==
    UNION {[us -> {"setting_province"}] : us \in SUBSET Users}

InitHandler ==
    /\ chat_states = EmptyDict
    /\ chat_sessions = EmptyDict
    /\ awaiting_body = NoneAwaiting
    /\ request = Request("idle", "valid", "utf8", 0, 0)
    /\ turn = NoTurn
    /\ response = Response(0, "")
    /\ user_states \in InitUserStates
    /\ line_users = [x \in {"U1"} |-> Unset]
    /\ session_objs = EmptyDict
    /\ tasks = <<>>
    /\ gather = <<>>
    /\ carbon_request = NoCarbonRequest
    /\ carbon_response = NoCarbonResponse
    /\ iot_water = <<>>
    /\ iot_stats = <<>>
    /\ iot_response = NoIotResponse
    /\ iot_requests = <<>>
    /\ province_response = NoProvinceResponse
    /\ province_requests = <<>>
    /\ loop = IdleLoop
    /\ news = NoNews

\* handle() is called MaxDeliveries times at most, with MaxEvents text
\* events at most in all
NextHandler ==
    \/ \E events \in EventSeqs :
           /\ Len(gather) < MaxDeliveries
           /\ Len(tasks) + Len(events) <= MaxEvents
           /\ Handle(events)
    \/ \E i \in 1..MaxEvents : TaskStart(i)
    \/ \E i \in 1..MaxEvents : TaskExecute(i)
    \/ \E i \in 1..MaxEvents : TaskCommit(i)
    \/ \E i \in 1..MaxEvents : TaskReply(i)
    \/ \E i \in 1..MaxEvents : TaskRaise(i)
    \/ \E k \in DOMAIN gather : GatherDone(k)

SpecHandler == InitHandler /\ [][NextHandler]_vars

\* ------------------------------------------------------------------
\* POST /line-user/set-province beside the turns of LineMessageHandler
\* ------------------------------------------------------------------
\* values of the query parameter province_name
ProvinceNames == {SuphanTh, KoratEn, Sp \o SuphanEn, Abc}

\* the events of the calls of handle() that run beside the requests: a
\* province name in English, of either user
ProvinceEvents == [user : Users, text : {KoratEn}]

ProvinceEventSeqs == UNION {[1..n -> ProvinceEvents] : n \in 0..MaxEvents}

\* the requests to set-province in flight
ProvinceInFlight == {i \in DOMAIN province_requests : province_requests[i].pc # "idle"}

\* the first slot that holds no request to set-province
ProvinceFreeSlot ==
    CHOOSE i \in 1..(Len(province_requests) + 1) :
        i \notin ProvinceInFlight /\ \A j \in 1..(i - 1) : j \in ProvinceInFlight

\* the handler of request req has run to an await, or to its end
SetProvinceStep(i, req) ==
    IF req.pc = "answered"
    THEN /\ province_response' = req.answer
         /\ province_requests' =
               Trim([j \in DOMAIN province_requests |->
                        IF j = i THEN NoProvinceRequest ELSE province_requests[j]])
    ELSE /\ province_requests' =
               [j \in DOMAIN province_requests \cup {i} |->
                   IF j = i THEN req ELSE province_requests[j]]
         /\ UNCHANGED province_response

\* a request to POST /line-user/set-province arrives: the handler runs to
\* `await session.get(LineUser, user_id)` or raises 400
SetProvince(user_id, province_name) ==
    /\ SetProvinceStep(ProvinceFreeSlot,
                       set_province(ProvinceRequest(user_id, province_name, "start",
                                                    "unset", <<>>, 0,
                                                    NoProvinceResponse)))
    /\ UNCHANGED <<user_states, line_users, session_objs, tasks, gather>>
    /\ UNCHANGED <<wvars, cvars, ivars, lvars, nvars>>

\* the database performs the select of session.get, line 34
SessionGet(i) ==
    /\ province_requests[i].pc = "get"
    /\ province_requests' =
          [province_requests EXCEPT
              ![i].pc = "got",
              ![i].result = IF province_requests[i].user_id \in DOMAIN line_users
                            THEN "LineUser" ELSE None]
    /\ UNCHANGED <<user_states, line_users, session_objs, tasks, gather,
                   province_response>>
    /\ UNCHANGED <<wvars, cvars, ivars, lvars, nvars>>

\* the database performs the commit of line 40: the province set at line 38
\* is written
SessionCommit(i) ==
    /\ province_requests[i].pc = "commit"
    /\ line_users' = DictSet(line_users, province_requests[i].user_id,
                             province_requests[i].province)
    /\ province_requests' = [province_requests EXCEPT ![i].pc = "committed",
                                                      ![i].writes = @ + 1]
    /\ UNCHANGED <<user_states, session_objs, tasks, gather, province_response>>
    /\ UNCHANGED <<wvars, cvars, ivars, lvars, nvars>>

\* session.get or session.commit raises: nothing is written
SessionRaise(i) ==
    /\ province_requests[i].pc \in {"get", "commit"}
    /\ province_requests' = [province_requests EXCEPT ![i].pc = "raised"]
    /\ UNCHANGED <<user_states, line_users, session_objs, tasks, gather,
                   province_response>>
    /\ UNCHANGED <<wvars, cvars, ivars, lvars, nvars>>

\* the event loop resumes the handler of request i after its await
SetProvinceResume(i) ==
    /\ province_requests[i].pc \in {"got", "committed", "raised"}
    /\ SetProvinceStep(i, set_province(province_requests[i]))
    /\ UNCHANGED <<user_states, line_users, session_objs, tasks, gather>>
    /\ UNCHANGED <<wvars, cvars, ivars, lvars, nvars>>

\* the turns of LineMessageHandler that have not ended
PendingTurns == {i \in DOMAIN tasks : IsPending(tasks[i])}

\* a request to set-province is taken while fewer than MaxInFlight
\* coroutines, requests and turns, are suspended
CanSetProvince == Cardinality(ProvinceInFlight) + Cardinality(PendingTurns) < MaxInFlight

\* both users have sent the setting keyword and were asked for a province
InitProvince ==
    /\ InitHandler
    /\ DOMAIN user_states = Users

\* handle() is called MaxCalls times at most, set-province any number of
\* times; MaxInFlight coroutines at most are suspended at a time
NextProvince ==
    \/ \E events \in ProvinceEventSeqs :
           /\ Len(gather) < MaxCalls
           /\ Cardinality(ProvinceInFlight) + Len(events) <= MaxInFlight
           /\ Len(tasks) + Len(events) <= MaxEvents
           /\ Handle(events)
    \/ \E i \in 1..MaxEvents : TaskStart(i)
    \/ \E i \in 1..MaxEvents : TaskExecute(i)
    \/ \E i \in 1..MaxEvents : TaskCommit(i)
    \/ \E i \in 1..MaxEvents : TaskReply(i)
    \/ \E i \in 1..MaxEvents : TaskRaise(i)
    \/ \E k \in DOMAIN gather : GatherDone(k)
    \/ CanSetProvince /\ \E user_id \in Users, province_name \in ProvinceNames :
                            SetProvince(user_id, province_name)
    \/ \E i \in DOMAIN province_requests : SessionGet(i)
    \/ \E i \in DOMAIN province_requests : SessionCommit(i)
    \/ \E i \in DOMAIN province_requests : SessionRaise(i)
    \/ \E i \in DOMAIN province_requests : SetProvinceResume(i)

SpecProvince == InitProvince /\ [][NextProvince]_vars

\* ------------------------------------------------------------------
\* Concurrent deliveries to POST /line/webhook: line_webhook is a coroutine
\* of the event loop of the process, handler.handle and the two handlers
\* are synchronous functions it calls
\* ------------------------------------------------------------------
\* texts and environments of the turns of concurrent deliveries
LoopTexts == {KwCarbonTh, KwRecommendTh, CarbonData, Abc}

LoopEnvs ==
    {env \in Envs : env.results = 0 /\ env.fail \in {{}, {"chat"}, {"reply", "error_reply"}}}

LoopImageFailures == {{}, {"predict"}, {"typing"}}

\* a loop on which calls of the endpoint execute in a pool of threads, one
\* beside the other
Scheduled_Threadpool(running) == TRUE

\* the loop has one thread: it starts or resumes a coroutine only when no
\* other is executing, and the one that executes keeps the thread until it
\* awaits or returns
Scheduled(running) == running = {}

\* lines 190-194: a request with a signature header arrives, the coroutine
\* starts and suspends at `await request.body()`
Receive(n) ==
    /\ Len(loop.deliveries) < MaxDeliveries
    /\ Scheduled(loop.running)
    /\ loop' = [loop EXCEPT
                  !.deliveries = Append(@, Delivery("await_body", n, 0, NoLoopEvent))]
    /\ UNCHANGED <<wvars, hvars, cvars, ivars, pvars, nvars>>

\* the body of the request has been read: the coroutine can be resumed
BodyArrives(d) ==
    /\ d \in DOMAIN loop.deliveries
    /\ loop.deliveries[d].pc = "await_body"
    /\ loop' = [loop EXCEPT !.deliveries[d].pc = "ready"]
    /\ UNCHANGED <<wvars, hvars, cvars, ivars, pvars, nvars>>

\* lines 194-197: the loop resumes the coroutine, which enters handler.handle
Resume(d) ==
    /\ d \in DOMAIN loop.deliveries
    /\ loop.deliveries[d].pc = "ready"
    /\ Scheduled(loop.running)
    /\ loop' = [loop EXCEPT !.deliveries[d].pc = "dispatch",
                            !.running = @ \cup {d},
                            !.order = Append(@, d)]
    /\ UNCHANGED <<wvars, hvars, cvars, ivars, pvars, nvars>>

\* lines 209-220: handler.handle calls handle_text_message for the next
\* event, which reads the state of the user and selects the branch
LoopTurnStart(d, u, text) ==
    /\ d \in loop.running
    /\ loop.deliveries[d].pc = "dispatch"
    /\ loop.deliveries[d].remaining > 0
    /\ loop' = [loop EXCEPT
                  !.deliveries[d].pc = "in_turn",
                  !.deliveries[d].event =
                      LoopEvent(u, text, get_chat_state(chat_states, u),
                                u \in DOMAIN chat_sessions,
                                Branch(text, get_chat_state(chat_states, u),
                                       u \in DOMAIN chat_sessions))]
    /\ UNCHANGED <<wvars, hvars, cvars, ivars, pvars, nvars>>

\* what the end of a turn does to its call of line_webhook: an exception
\* that leaves the handler ends the call, otherwise handler.handle goes on
AfterTurn(d, raised) ==
    [loop EXCEPT
       !.deliveries[d] =
           IF raised
           THEN Delivery("done", 0, @.handled + 1, NoLoopEvent)
           ELSE Delivery("dispatch", @.remaining - 1, @.handled + 1, NoLoopEvent),
       !.running = IF raised THEN @ \ {d} ELSE @,
       !.log = Append(@, <<d, loop.deliveries[d].handled + 1>>)]

\* lines 220-395: the branch selected at the start of the turn runs, writes
\* the two dicts and replies
LoopTurnEnd(d, env) ==
    /\ d \in loop.running
    /\ loop.deliveries[d].pc = "in_turn"
    /\ LET e == loop.deliveries[d].event
           r == Dispatch(chat_states, chat_sessions, e.user, e.text, env,
                         e.state, e.hadSession, e.branch)
       IN  /\ chat_states' = r.cs
           /\ chat_sessions' = r.ss
           /\ loop' = AfterTurn(d, r.turn.raised)
    /\ UNCHANGED <<awaiting_body, request, turn, response, hvars, cvars, ivars, pvars, nvars>>

\* lines 398-489: handler.handle calls handle_image_message for the next
\* event; the handler reads and writes neither dict
LoopImageTurn(d, u, fail) ==
    /\ d \in loop.running
    /\ loop.deliveries[d].pc = "dispatch"
    /\ loop.deliveries[d].remaining > 0
    /\ loop' = AfterTurn(d, handle_image_message(chat_states, chat_sessions, u, fail).raised)
    /\ UNCHANGED <<wvars, hvars, cvars, ivars, pvars, nvars>>

\* line 201: handler.handle returned, the coroutine returns the response
LoopReturn(d) ==
    /\ d \in loop.running
    /\ loop.deliveries[d].pc = "dispatch"
    /\ loop.deliveries[d].remaining = 0
    /\ loop' = [loop EXCEPT !.deliveries[d].pc = "done", !.running = @ \ {d}]
    /\ UNCHANGED <<wvars, hvars, cvars, ivars, pvars, nvars>>

NextLoop ==
    \/ \E n \in 0..MaxEvents : Receive(n)
    \/ \E d \in 1..MaxDeliveries : BodyArrives(d)
    \/ \E d \in 1..MaxDeliveries : Resume(d)
    \/ \E d \in 1..MaxDeliveries, u \in Users, text \in LoopTexts : LoopTurnStart(d, u, text)
    \/ \E d \in 1..MaxDeliveries, env \in LoopEnvs : LoopTurnEnd(d, env)
    \/ \E d \in 1..MaxDeliveries, u \in Users, fail \in LoopImageFailures :
           LoopImageTurn(d, u, fail)
    \/ \E d \in 1..MaxDeliveries : LoopReturn(d)

SpecLoop == Init /\ [][NextLoop]_vars

\* ------------------------------------------------------------------
\* Calls of get_farm_news
\* ------------------------------------------------------------------
\* line_webhook.py:229: the call of get_farm_news() of a run, with the given
\* response of the search
GetFarmNews(search) ==
    /\ news' = News(search, get_farm_news_text(search).text,
                     get_farm_news_text(search).raised)
    /\ UNCHANGED <<wvars, hvars, cvars, ivars, pvars, lvars>>

NextNews ==
    /\ news = NoNews
    /\ \E search \in SearchResponses : GetFarmNews(search)

SpecNews == Init /\ [][NextNews]_vars

\* ------------------------------------------------------------------
\* Properties of the webhook conversation state machine
\* ------------------------------------------------------------------
\* a turn of handle_text_message has just run
TurnDone == turn.user # "none" /\ turn.branch # "image"

\* no call of a collaborator failed in the turn
NoCollaboratorFailure == turn.exc \notin Collaborators

\* the state of the turn's user after the turn
StateAfter == get_chat_state(chat_states, turn.user)

AwaitingStates ==
    {"awaiting_carbon_credit_data", "waiting_recommendation", "awaiting_province"}

\* the collaborator calls of the turn that are in the set S
CallsIn(S) == {i \in DOMAIN turn.calls : turn.calls[i] \in S}

\* C1: a user who is Idle and sends a text containing the Thai
\* carbon-credit keyword is in awaiting_carbon_credit_data after the turn
\* and the one reply sent is the fixed carbon-credit prompt (in a turn whose
\* gateway calls, typing indicator and reply, succeed).
C1_CarbonRequestFromIdle ==
    (TurnDone /\ turn.pre = None /\ Contains(turn.text, KwCarbonTh)
        /\ NoCollaboratorFailure)
    => /\ StateAfter = "awaiting_carbon_credit_data"
       /\ turn.replies = <<Reply("carbon_prompt", "", 0)>>

C1_Witness ==
    /\ TurnDone /\ turn.pre = None /\ Contains(turn.text, KwCarbonTh)
    /\ NoCollaboratorFailure
    /\ StateAfter = "awaiting_carbon_credit_data"
    /\ turn.replies = <<Reply("carbon_prompt", "", 0)>>

\* C2: a user in awaiting_carbon_credit_data who sends a text matching
\* "<integer> rai, <integer> days" gets the carbon-credit report of the
\* calculator and is Idle after the turn.
C2_CarbonDataReported ==
    (TurnDone /\ turn.pre = "awaiting_carbon_credit_data"
        /\ CarbonDataMatch(turn.text).matched /\ NoCollaboratorFailure)
    => /\ Len(turn.replies) = 1
       /\ turn.replies[1].kind = "carbon_report"
       /\ StateAfter = None

\* C3: a user in awaiting_carbon_credit_data who sends a text that does not
\* match the pattern gets the format-error prompt and is Idle after the turn.
C3_CarbonDataFormatError ==
    (TurnDone /\ turn.pre = "awaiting_carbon_credit_data"
        /\ ~CarbonDataMatch(turn.text).matched /\ NoCollaboratorFailure)
    => /\ turn.replies = <<Reply("format_error", "", 0)>>
       /\ StateAfter = None

\* C4: a user in awaiting_province who sends exactly the Thai or English
\* name of a province is Idle after the turn, and the turn makes exactly one
\* hydrology fetch.
C4_ProvinceMatchOneFetch ==
    (TurnDone /\ turn.pre = "awaiting_province"
        /\ MatchProvince(turn.text) # NoProvince /\ NoCollaboratorFailure)
    => /\ StateAfter = None
       /\ Cardinality(CallsIn({"fetch_small", "fetch_medium"})) = 1

\* C5: a user in awaiting_province who sends a text that is no province's
\* Thai or English name gets the not-found message and is Idle after the turn.
C5_ProvinceNotFound ==
    (TurnDone /\ turn.pre = "awaiting_province"
        /\ MatchProvince(turn.text) = NoProvince /\ NoCollaboratorFailure)
    => /\ turn.replies = <<Reply("province_not_found", "", 0)>>
       /\ StateAfter = None

\* C7: POST /line/webhook answers 400 when the signature header is missing
\* and 400 when the signature of the delivery does not verify, dispatching
\* no event and changing neither chat_states nor chat_sessions; a verified
\* delivery whose handlers all return is answered 200 "Webhook processed
\* successfully.".
C7_SignatureGate ==
    /\ []((request.phase = "idle" /\ response.status # 0) =>
            /\ request.sig \in {"absent", "empty"} =>
                  /\ response = Response(400, "Missing signature header.")
                  /\ request.handled = 0
            /\ request.sig = "invalid" =>
                  /\ response = Response(400, "Invalid signature.")
                  /\ request.handled = 0
            /\ (request.sig = "valid" /\ request.body = "utf8" /\ ~turn.raised) =>
                  response = Response(200, "Webhook processed successfully."))
    /\ [][(request.phase = "idle" /\ response'.status = 400) =>
            /\ UNCHANGED <<chat_states, chat_sessions>>
            /\ request'.phase = "idle"]_vars

\* C8: every text of a user in waiting_recommendation is taken as the
\* farmer's context: it goes to the Chat-Completion Provider in the
\* combined prompt and the user is Idle after the turn.
C8_RecommendationContext ==
    (TurnDone /\ turn.pre = "waiting_recommendation" /\ NoCollaboratorFailure)
    => /\ turn.branch = "recommendation_context"
       /\ turn.replies = <<Reply("llm", "recommendation", 0)>>
       /\ StateAfter = None

\* the triggers in their priority order, each with its two keywords
Triggers ==
    << [branch |-> "carbon_request",    kws |-> {KwCarbonTh, KwCarbonEn}],
       [branch |-> "news_request",      kws |-> {KwNewsTh, KwNewsEn}],
       [branch |-> "overview_request",  kws |-> {KwOverviewTh, KwOverviewEn}],
       [branch |-> "recommend_request", kws |-> {KwRecommendTh, KwRecommendEn}],
       [branch |-> "water_request",     kws |-> {KwWaterTh, KwWaterEn}] >>

\* the triggers of which the text contains a keyword
Mentioned(text) ==
    {i \in DOMAIN Triggers : \E kw \in Triggers[i].kws : Contains(text, kw)}

\* C9: for an Idle user the branch taken is that of the first trigger, in
\* the order carbon-credit, news, field overview, recommendation, water
\* data, of which the text contains a keyword, and free-form chat when the
\* text contains no keyword.
C9_FirstTriggerWins ==
    (TurnDone /\ turn.pre = None /\ turn.branch # "none")
    => LET m == Mentioned(turn.text)
       IN  IF m = {} THEN turn.branch = "free_chat"
           ELSE \E i \in m : /\ \A j \in m : i <= j
                             /\ turn.branch = Triggers[i].branch

\* an Idle user sent a text with keywords of several triggers, the first of
\* them not being the first in the text
C9_Witness ==
    /\ TurnDone /\ turn.pre = None
    /\ turn.text = KwNewsEn \o Sp \o KwCarbonTh
    /\ Cardinality(Mentioned(turn.text)) = 2
    /\ turn.branch = "carbon_request"

\* the branch that parses the reply expected in an Awaiting state
ParserOf(state) ==
    CASE state = "awaiting_carbon_credit_data" -> "carbon_data"
      [] state = "awaiting_province" -> "province"
      [] state = "waiting_recommendation" -> "recommendation_context"
      [] OTHER -> "none"

\* C10: the trigger keywords are consulted only for an Idle user: in an
\* Awaiting state the text is handled by the parser of that state, also
\* when it contains a trigger keyword.
C10_StateBeforeTriggers ==
    (TurnDone /\ turn.pre \in AwaitingStates /\ turn.branch # "none")
    => turn.branch = ParserOf(turn.pre)

\* ------------------------------------------------------------------
\* Properties of LineMessageHandler
\* ------------------------------------------------------------------
\* one turn of LineMessageHandler run without interleaving
SeqTurn(us, u, text) ==
    LET s == ProcessStart(us, u, text)
    IN  [us |-> IF s.handling = "province" THEN DictPop(s.us, u) ELSE s.us,
         handling |-> s.handling]

RECURSIVE UsBefore(_, _, _)
\* user_states before the k-th turn when the tasks run one after the other
\* in the given order, from the state us0
UsBefore(us0, order, k) ==
    IF k = 1 THEN us0
    ELSE SeqTurn(UsBefore(us0, order, k - 1), tasks[order[k - 1]].user,
                 tasks[order[k - 1]].text).us

\* the handlings and the final state are those of the sequential run from
\* the state us0
SerialOutcome(us0, order) ==
    /\ \A k \in DOMAIN tasks :
          SeqTurn(UsBefore(us0, order, k), tasks[order[k]].user,
                  tasks[order[k]].text).handling = tasks[order[k]].handling
    /\ UsBefore(us0, order, Len(tasks) + 1) = user_states

Perms(n) == {p \in [1..n -> 1..n] : \A i, j \in 1..n : i # j => p[i] # p[j]}

\* C6: when handle() has gathered the turns of two text events of one user,
\* the handling of each message and the final user state are those of
\* processing the two messages one after the other in some order.
C6_TurnsSerializable ==
    (/\ Len(gather) = 1
     /\ Len(tasks) = 2
     /\ GatheredTasks(gather[1]) = {1, 2}
     /\ \A i \in GatheredTasks(gather[1]) : tasks[i].pc = "done"
     /\ tasks[1].user = tasks[2].user)
    => \E order \in Perms(2) : SerialOutcome(gather[1].pre, order)

\* ------------------------------------------------------------------
\* Failure semantics of a turn
\* ------------------------------------------------------------------
\* the state the branch of the turn sets on its path without failure
SuccessState ==
    IF turn.branch \in {"province", "recommendation_context"} THEN None
    ELSE turn.pre

\* C11: when a hydrology fetch or the chat completion fails inside a turn,
\* the call is made once, the user gets the error message with the failure
\* detail, and the state after the turn is the one the branch sets when the
\* call succeeds (Idle for the province and recommendation-context
\* branches).
C11_FailureLeavesSuccessState ==
    (TurnDone /\ turn.exc \in {"fetch_small", "fetch_medium", "chat"} /\ ~turn.raised)
    => /\ Cardinality(CallsIn({turn.exc})) = 1
       /\ turn.replies = <<Reply("error", turn.exc, 0)>>
       /\ StateAfter = SuccessState

\* C12: no failure of a call inside an event's turn leaves the turn: a
\* verified delivery is never answered by anything but 200.
C12_FailuresStayInTurn ==
    /\ ~turn.raised
    /\ (request.sig = "valid" /\ request.body = "utf8") => response.status \in {0, 200}

\* C13: every turn of LineMessageHandler that has ended sent exactly one
\* reply, unless the reply call itself was refused, and no turn sends two.
C13_ExactlyOneReply ==
    \A i \in DOMAIN tasks :
        /\ tasks[i].replies <= 1
        /\ (tasks[i].pc = "done" \/ (tasks[i].pc = "raised" /\ tasks[i].msg # "reply"))
              => tasks[i].replies = 1

\* environments in which no collaborator call fails
HealthyEnvs == {env \in Envs : env.fail = {}}

\* C14: two users in the same intent state who send the same text, with
\* the collaborators answering alike, take the same branch and end in the
\* same state, whether or not they have a chat handle.
C14_DeterministicInStateAndText ==
    \A text \in WebhookTexts, env \in HealthyEnvs :
        get_chat_state(chat_states, "U1") = get_chat_state(chat_states, "U2")
        => LET r1 == handle_text_message(chat_states, chat_sessions, "U1", text, env)
               r2 == handle_text_message(chat_states, chat_sessions, "U2", text, env)
           IN  /\ r1.turn.branch = r2.turn.branch
               /\ get_chat_state(r1.cs, "U1") = get_chat_state(r2.cs, "U2")

\* the collaborators besides the messaging gateway
ExternalCollaborators == {"search", "chat", "fetch_small", "fetch_medium"}

IsExternal(c) == c \in ExternalCollaborators

\* the calls of the turn to collaborators besides the gateway, in order
ExternalCalls == SelectSeq(turn.calls, IsExternal)

\* C15: a turn calls at most one collaborator besides the messaging
\* gateway, and calls it at most once.
C15_AtMostOneCollaboratorCall ==
    TurnDone => Len(ExternalCalls) <= 1

\* C16: the text of an Idle user that contains no trigger keyword goes to
\* the Chat-Completion Provider through the user's chat handle, which is
\* created when the user has none; the provider's answer is the one reply
\* and the user stays Idle (in a turn without collaborator failure).
C16_FreeChatFromIdle ==
    (TurnDone /\ turn.pre = None /\ Mentioned(turn.text) = {} /\ NoCollaboratorFailure)
    => /\ turn.branch = "free_chat"
       /\ ExternalCalls = <<"chat">>
       /\ turn.user \in DOMAIN chat_sessions
       /\ chat_sessions[turn.user] = ChatSession
       /\ turn.replies = <<Reply("llm", "free", 0)>>
       /\ StateAfter = None

\* an Idle user without chat handle sent a text without keyword
C16_Witness ==
    /\ TurnDone /\ turn.pre = None /\ Mentioned(turn.text) = {}
    /\ NoCollaboratorFailure
    /\ ~turn.hadSession
    /\ chat_sessions[turn.user] = ChatSession
    /\ turn.replies = <<Reply("llm", "free", 0)>>

\* the user of the turn has no usable chat handle
HandleAbsent ==
    turn.user \notin DOMAIN chat_sessions \/ chat_sessions[turn.user] = None

\* C17: a chat handle comes into being only in a free-form turn; the turn
\* that completes the carbon-credit flow leaves the user without handle;
\* and every free-form turn, whatever became of the handle before it, is
\* answered by the provider and leaves the user with a usable handle.
C17_HandleLifecycle ==
    /\ (TurnDone /\ ~turn.hadSession /\ turn.user \in DOMAIN chat_sessions)
          => turn.branch = "free_chat"
    /\ (TurnDone /\ turn.branch = "carbon_data" /\ CarbonDataMatch(turn.text).matched
            /\ NoCollaboratorFailure)
          => HandleAbsent
    /\ (TurnDone /\ turn.branch = "free_chat" /\ NoCollaboratorFailure)
          => /\ ~HandleAbsent
             /\ turn.replies = <<Reply("llm", "free", 0)>>

\* ------------------------------------------------------------------
\* Properties of the carbon-credit calculator
\* ------------------------------------------------------------------
\* the formula of the calculator in double precision:
\* 0.1952 * area * harvest_age * 1e-3 * 25
FormulaEmission(area, harvest_age) ==
    FMul(FMul(FMul(FMul(DoubleOfDecimal(1952, 4), ToDouble(area)),
                   ToDouble(harvest_age)),
              DoubleOfDecimal(1, 3)),
         ToDouble(25))

\* C18: for area > 0 and harvest_age > 0 POST /carbon-credit/ answers
\* methane_emission = 0.1952 * area * harvest_age * 10^-3 * 25 and
\* carbon_credit = methane_emission / 1000, both in IEEE-754 double
\* precision, and the answer is a function of the body alone.
C18_CarbonCreditFormula ==
    (carbon_response.status # 0 /\ carbon_request.area > 0
        /\ carbon_request.harvest_age > 0)
    => /\ carbon_response.status = 200
       /\ carbon_response.methane_emission =
             FormulaEmission(carbon_request.area, carbon_request.harvest_age)
       /\ carbon_response.carbon_credit = FDiv(carbon_response.methane_emission, 1000)

\* 3 rai and 7 days were posted: 0.10248 and the double next above 0.00010248
C18_Witness ==
    /\ carbon_request = CarbonCreditRequest(3, 7)
    /\ carbon_response.status = 200
    /\ carbon_response.methane_emission = DoubleOfDecimal(10248, 5)
    /\ carbon_response.carbon_credit # DoubleOfDecimal(10248, 8)

\* C19 as stated: for 5 rai and 120 days the calculator returns methane
\* emission 11.712 and carbon credit 0.011712.
C19_Estimate5x120 ==
    (carbon_response.status # 0 /\ carbon_request = CarbonCreditRequest(5, 120))
    => /\ carbon_response.methane_emission = DoubleOfDecimal(11712, 3)
       /\ carbon_response.carbon_credit = DoubleOfDecimal(11712, 6)

\* C19: for 5 rai and 120 days the calculator returns methane emission
\* 2.928 and carbon credit 0.002928.
C19_Estimate5x120Is2928 ==
    (carbon_response.status # 0 /\ carbon_request = CarbonCreditRequest(5, 120))
    => /\ carbon_response.status = 200
       /\ carbon_response.methane_emission = DoubleOfDecimal(2928, 3)
       /\ carbon_response.carbon_credit = DoubleOfDecimal(2928, 6)

C19_Witness ==
    /\ carbon_request = CarbonCreditRequest(5, 120)
    /\ carbon_response.status = 200
    /\ carbon_response.methane_emission = DoubleOfDecimal(2928, 3)

\* C20: a user in awaiting_carbon_credit_data who sends "5 rai, 120 days"
\* (in Thai) gets the report, and the methane emission it shows, rounded to
\* two decimals, is 11.72.
C20_ReportShows1172 ==
    (TurnDone /\ turn.pre = "awaiting_carbon_credit_data" /\ turn.text = CarbonData
        /\ NoCollaboratorFailure)
    => /\ Len(turn.replies) = 1
       /\ turn.replies[1].kind = "carbon_report"
       /\ Format2f(turn.replies[1].n) = 1172

\* C21: POST /carbon-credit/ answers 400 without result when area <= 0 or
\* harvest_age <= 0, the detail naming the field, the area first when both
\* are invalid; for area > 0 and harvest_age > 0 it does not answer 400.
C21_CarbonCreditValidation ==
    carbon_response.status # 0 =>
       /\ carbon_request.area <= 0 =>
             carbon_response = CarbonResponse(400, "Area must be greater than 0",
                                              NoNumber, NoNumber)
       /\ (carbon_request.area > 0 /\ carbon_request.harvest_age <= 0) =>
             carbon_response = CarbonResponse(400, "Harvest age must be greater than 0",
                                              NoNumber, NoNumber)
       /\ (carbon_request.area > 0 /\ carbon_request.harvest_age > 0) =>
             carbon_response.status = 200

\* area and harvest age were both invalid: the error names the area
C21_Witness ==
    /\ carbon_request = CarbonCreditRequest(-1, 0)
    /\ carbon_response.status = 400
    /\ carbon_response.detail = "Area must be greater than 0"

\* C22: a user in awaiting_carbon_credit_data whose reply matches the
\* pattern with an area of 0 or a harvest age of 0 is answered with the
\* calculator's validation error, never with a report.
C22_ChatValidatesInput ==
    (TurnDone /\ turn.branch = "carbon_data" /\ CarbonDataMatch(turn.text).matched
        /\ CarbonDataMatch(turn.text).harvest_age.exc = "none"
        /\ ~CarbonDataMatch(turn.text).area.inf
        /\ (CarbonDataMatch(turn.text).area.value <= 0
               \/ CarbonDataMatch(turn.text).harvest_age.value <= 0)
        /\ NoCollaboratorFailure)
    => turn.replies = <<Reply("error", "ValidationError", 0)>>

\* C30: for the same area and harvest age the chat report shows the
\* methane emission and the carbon credit that POST /carbon-credit/ returns.
C30_ChatAgreesWithEndpoint ==
    (TurnDone /\ turn.branch = "carbon_data" /\ CarbonDataMatch(turn.text).matched
        /\ CarbonDataMatch(turn.text).harvest_age.exc = "none"
        /\ ~CarbonDataMatch(turn.text).area.inf
        /\ CarbonDataMatch(turn.text).area.value > 0
        /\ CarbonDataMatch(turn.text).harvest_age.value > 0
        /\ NoCollaboratorFailure)
    => LET match == CarbonDataMatch(turn.text)
           r == calculate_carbon_credit(CarbonCreditRequest(match.area.value,
                                                            match.harvest_age.value))
       IN  /\ Len(turn.replies) = 1
           /\ turn.replies[1].kind = "carbon_report"
           /\ turn.replies[1].n = r.methane_emission
           /\ ReportCarbonCredit(turn.replies[1].n) = r.carbon_credit

\* ------------------------------------------------------------------
\* Frame properties of the webhook
\* ------------------------------------------------------------------
\* C25 as stated: no step creates a chat_states entry for a user who has
\* neither a chat_states entry nor a chat handle.
C25_SetStateNoOpWithoutSession ==
    [][\A u \in Users :
          (u \notin DOMAIN chat_states /\ u \notin DOMAIN chat_sessions)
          => u \notin DOMAIN chat_states']_vars

\* the state a trigger branch sets
TriggerState(branch) ==
    CASE branch = "carbon_request" -> "awaiting_carbon_credit_data"
      [] branch = "recommend_request" -> "waiting_recommendation"
      [] branch = "water_request" -> "awaiting_province"
      [] OTHER -> None

\* C25: set_chat_state overwrites the user's intent state and creates the
\* entry when the user has none: after a turn of a trigger branch the
\* user has the entry of that branch, and every change of chat_states is
\* the write of the one entry of the turn's user.
C25_SetStateWritesAlways ==
    /\ []((TurnDone /\ turn.branch \in {"carbon_request", "recommend_request",
                                          "water_request"})
          => /\ turn.user \in DOMAIN chat_states
             /\ chat_states[turn.user] = TriggerState(turn.branch))
    /\ [][chat_states' # chat_states
            => \E state \in AwaitingStates \cup {None} :
                  chat_states' = DictSet(chat_states, turn'.user, state)]_vars

\* a user without chat handle got the entry by the first event of a delivery
C25_Witness ==
    /\ TurnDone
    /\ turn.branch = "water_request"
    /\ ~turn.hadSession
    /\ turn.user \notin DOMAIN chat_sessions
    /\ chat_states = [u \in {turn.user} |-> "awaiting_province"]

\* C26: the turn of a news request or of a field-overview request changes
\* neither chat_states nor chat_sessions, whether the search succeeds,
\* returns nothing or fails: the user's state after it is the one before.
C26_NewsAndOverviewFrame ==
    /\ []((TurnDone /\ turn.branch \in {"news_request", "overview_request"})
          => /\ StateAfter = turn.pre
             /\ (turn.user \in DOMAIN chat_sessions) = turn.hadSession)
    /\ [][turn'.branch \in {"news_request", "overview_request"}
            => UNCHANGED <<chat_states, chat_sessions>>]_vars

\* the search failed in the news request of an Idle user
C26_Witness ==
    /\ TurnDone
    /\ turn.branch = "news_request"
    /\ turn.pre = None
    /\ turn.replies = <<Reply("news_error", "search", 0)>>
    /\ StateAfter = None

\* ------------------------------------------------------------------
\* Properties of the IoT endpoints
\* ------------------------------------------------------------------
\* the step in which the database performs the select of request i
Selected(i) ==
    /\ iot_requests[i].pc = "execute"
    /\ iot_requests'[i].pc = "executed"

\* the table a request to a recent-endpoint reads
RecentTable(op) ==
    IF op = "get_recent_water_levels" THEN iot_water ELSE iot_stats

\* C23: the two recent-endpoints answer 400 with no row when days <= 0; for
\* days > 0 they answer 200 with the rows the table holds at the time of the
\* select with create_time >= now - days, all of them and no other.
C23_RecentRows ==
    [][/\ \A i \in DOMAIN iot_requests :
             (/\ Selected(i)
              /\ iot_requests[i].op \in {"get_recent_water_levels",
                                         "get_recent_field_stats"}) =>
                LET req == iot_requests[i]
                    IsRecent(row) == row.create_time >= req.request.now - req.request.days
                IN  /\ iot_requests'[i].answer.status = 200
                    /\ iot_requests'[i].answer.rows =
                          SelectSeq(RecentTable(req.op), IsRecent)
       /\ iot_response'.op \in {"get_recent_water_levels", "get_recent_field_stats"} =>
             /\ iot_response'.request.days <= 0 =>
                   (iot_response'.status = 400 /\ iot_response'.rows = <<>>)
             /\ iot_response'.request.days > 0 => iot_response'.status = 200]_vars

\* C27: every step keeps every stored row as it is and in its place; a
\* step that changes a table is the commit of one create in flight, it
\* appends the one row posted and leaves the other table alone; a create
\* answered 201 answers the row stored under its id.
C27_ReadingsImmutable ==
    [][/\ \A i \in DOMAIN iot_water :
             i \in DOMAIN iot_water' /\ iot_water'[i] = iot_water[i]
       /\ \A i \in DOMAIN iot_stats :
             i \in DOMAIN iot_stats' /\ iot_stats'[i] = iot_stats[i]
       /\ iot_water' # iot_water =>
             /\ \E r \in DOMAIN iot_requests :
                   /\ iot_requests[r].op = "create_water_level"
                   /\ iot_requests[r].pc = "commit"
                   /\ iot_requests'[r].pc = "committed"
                   /\ iot_water' = Append(iot_water, iot_requests[r].request)
             /\ iot_stats' = iot_stats
       /\ iot_stats' # iot_stats =>
             /\ \E r \in DOMAIN iot_requests :
                   /\ iot_requests[r].op = "create_field_stats"
                   /\ iot_requests[r].pc = "commit"
                   /\ iot_requests'[r].pc = "committed"
                   /\ iot_stats' = Append(iot_stats, iot_requests[r].request)
             /\ iot_water' = iot_water
       /\ (iot_response'.op = "create_water_level" /\ iot_response'.status = 201) =>
             /\ iot_response'.rows = <<iot_response'.request>>
             /\ \E i \in DOMAIN iot_water' : iot_water'[i] = iot_response'.request
       /\ (iot_response'.op = "create_field_stats" /\ iot_response'.status = 201) =>
             /\ iot_response'.rows = <<iot_response'.request>>
             /\ \E i \in DOMAIN iot_stats' : iot_stats'[i] = iot_response'.request]_vars

\* a create with the id of a stored row was refused while two rows with
\* different contents are stored
C27_Witness ==
    /\ Len(iot_water) = 2
    /\ iot_response.op = "create_water_level"
    /\ iot_response.status = 500
    /\ \E i \in DOMAIN iot_water :
          /\ iot_water[i].id = iot_response.request.id
          /\ iot_water[i] # iot_response.request

\* ------------------------------------------------------------------
\* Properties of the province setting
\* ------------------------------------------------------------------
\* C24: POST /line-user/set-province, when the calls it awaits return,
\* answers 400 when province_name is no province's Thai or English name,
\* also for an unknown user, 404 when the name is valid and the user
\* unknown, success otherwise; nothing is committed for a request that is
\* answered 400 or 404, and none but a request with a valid name for a
\* known user comes to a commit.
C24_SetProvinceStatus ==
    /\ (province_response.status \notin {0, 500} =>
            LET matched == MatchProvince(province_response.province_name) # NoProvince
                known == province_response.user_id \in DOMAIN line_users
            IN  /\ ~matched => province_response.status = 400
                /\ (matched /\ ~known) => province_response.status = 404
                /\ (matched /\ known) => province_response.status = 200)
    /\ (province_response.status \in {400, 404} => province_response.writes = 0)
    /\ (\A i \in ProvinceInFlight :
            province_requests[i].pc \in {"commit", "committed"} =>
               /\ MatchProvince(province_requests[i].province_name) # NoProvince
               /\ province_requests[i].user_id \in DOMAIN line_users)

\* an unknown user posted an invalid name while a province is stored
C24_Witness ==
    /\ province_response.user_id = "U2"
    /\ province_response.province_name = Abc
    /\ province_response.status = 400
    /\ line_users["U1"] = KoratTh

\* task i ends in this step
Ends(i) ==
    /\ i \in DOMAIN tasks
    /\ i \in DOMAIN tasks'
    /\ IsPending(tasks[i])
    /\ ~IsPending(tasks'[i])

\* C28: the state of the user is checked before the trigger, in every turn
\* of LineMessageHandler: a user not in setting_province who sends exactly
\* the setting keyword (after trimming) gets the province prompt and is in
\* setting_province after the turn, any other text is echoed and the state
\* stays; a user in setting_province has every text, the keyword included,
\* handled as a province name and has no state after the turn, whether or
\* not the name matched.
C28_StateBeforeTrigger ==
    [][\A i \in 1..MaxEvents :
          Ends(i) =>
             LET t == tasks'[i]
             IN  /\ t.replies = 1
                 /\ IF t.pre = "setting_province"
                    THEN /\ t.handling = "province"
                         /\ t.user \notin DOMAIN user_states'
                         /\ IF MatchProvince(Strip(t.text)) = NoProvince
                            THEN t.msg = "invalid_province"
                            ELSE t.msg \in {"province_set", "user_not_found"}
                    ELSE IF Strip(t.text) = KwSetting
                    THEN /\ t.handling = "trigger"
                         /\ t.msg = "province_prompt"
                         /\ DictGet(user_states', t.user) = "setting_province"
                    ELSE /\ t.handling = "echo"
                         /\ t.msg = "echo"
                         /\ DictGet(user_states', t.user) = t.pre]_vars

\* the Thai names of the provinces
ThaiNames == {Province[i].name_th : i \in DOMAIN Province}

\* the task handles its text as the name of a province that exists
SetsProvince(t) == t.handling = "province" /\ t.province # NoProvince

\* C29: every stored province is the Thai name of a province, in every
\* interleaving of the requests to set-province and the turns of
\* LineMessageHandler, failing ones included; a commit that changes the
\* province of a user stores the Thai name of the province that the input
\* of a request or of a turn of the committed session matched; for a user
\* who is not in the table nothing is written, no commit is awaited, and
\* the answer of the endpoint (when session.get returned) and the reply of
\* the turn (when the select returned) say that the user was not found.
C29_CanonicalThaiName ==
    /\ [](/\ \A u \in DOMAIN line_users : line_users[u] \in ThaiNames \cup {Unset}
          /\ (province_response.status \notin {0, 500}
                 /\ MatchProvince(province_response.province_name) # NoProvince
                 /\ province_response.user_id \notin DOMAIN line_users)
               => /\ province_response.status = 404
                  /\ province_response.writes = 0
          /\ \A i \in ProvinceInFlight :
                province_requests[i].user_id \notin DOMAIN line_users =>
                   /\ province_requests[i].writes = 0
                   /\ province_requests[i].pc \notin {"commit", "committed"}
          /\ \A i \in DOMAIN tasks :
                tasks[i].user \notin DOMAIN line_users =>
                   /\ tasks[i].writes = 0
                   /\ tasks[i].pc # "commit"
                   /\ (SetsProvince(tasks[i]) /\ tasks[i].pc \in {"reply", "done"})
                         => tasks[i].msg = "user_not_found"
                   /\ (SetsProvince(tasks[i]) /\ tasks[i].pc = "done")
                         => tasks[i].replies = 1)
    /\ [][\A u \in DOMAIN line_users :
            line_users'[u] # line_users[u] =>
               \/ \E i \in ProvinceInFlight :
                     /\ province_requests[i].pc = "commit"
                     /\ province_requests'[i].pc = "committed"
                     /\ province_requests[i].user_id = u
                     /\ line_users'[u] =
                           MatchProvince(province_requests[i].province_name).name_th
               \/ \E i, j \in DOMAIN tasks :
                     /\ tasks[j].pc = "commit"
                     /\ tasks'[j].pc = "reply"
                     /\ tasks[i].session = tasks[j].session
                     /\ tasks[i].user = u
                     /\ SetsProvince(tasks[i])
                     /\ line_users'[u] = MatchProvince(Strip(tasks[i].text)).name_th]_vars

\* a turn stored the Thai name for the English name the user typed and
\* replied, while a request to set another province for the user awaits
\* its commit
C29_Witness ==
    /\ \E i \in DOMAIN tasks :
          /\ tasks[i].text = KoratEn
          /\ tasks[i].pc = "done"
          /\ tasks[i].msg = "province_set"
          /\ line_users[tasks[i].user] = KoratTh
    /\ \E i \in ProvinceInFlight :
          /\ province_requests[i].pc = "commit"
          /\ province_requests[i].user_id = "U1"
          /\ province_requests[i].province = SuphanTh

\* ------------------------------------------------------------------
\* Properties of concurrent deliveries
\* ------------------------------------------------------------------
\* the deliveries whose handler is inside a turn: it has read the state of
\* its user and has not yet written
InTurn == {d \in DOMAIN loop.deliveries : loop.deliveries[d].pc = "in_turn"}

\* position of delivery d in the order in which handler.handle was entered
Entered(d) == CHOOSE i \in DOMAIN loop.order : loop.order[i] = d

\* turn <<d1, k1>> precedes turn <<d2, k2>> in delivery order
Precedes(t1, t2) ==
    \/ Entered(t1[1]) < Entered(t2[1])
    \/ t1[1] = t2[1] /\ t1[2] < t2[2]

\* C31: in the webhook variant turns run strictly one at a time and in
\* delivery order: at most one turn is between its first read and its last
\* write of chat_states and chat_sessions, what that turn read is still what
\* the two dicts hold (no other turn wrote in between), every write of the
\* dicts is made by the one turn in progress, which ends with it, and the
\* turns end in the order of the deliveries (the order in which handler.handle
\* was entered) and, within a delivery, of its events.
C31_TurnsOneAtATime ==
    /\ [](/\ Cardinality(InTurn) <= 1
          /\ Cardinality(loop.running) <= 1
          /\ InTurn \subseteq loop.running
          /\ \A d \in InTurn :
                LET e == loop.deliveries[d].event
                IN  /\ e.state = get_chat_state(chat_states, e.user)
                    /\ e.hadSession = (e.user \in DOMAIN chat_sessions)
          /\ \A i, j \in DOMAIN loop.log :
                i < j => Precedes(loop.log[i], loop.log[j]))
    /\ [][/\ (chat_states' # chat_states \/ chat_sessions' # chat_sessions)
             => \E d \in InTurn :
                   /\ InTurn = {d}
                   /\ loop'.deliveries[d].pc # "in_turn"
                   /\ loop'.log = Append(loop.log, <<d, loop.deliveries[d].handled + 1>>)
          /\ \A d \in InTurn :
                \A x \in DOMAIN loop.deliveries \ {d} :
                    loop'.deliveries[x].pc \in {loop.deliveries[x].pc, "ready"}
         ]_vars

\* two deliveries are in progress at once: the handler of one is inside a
\* turn of a user in an Awaiting state while the body of the other has
\* arrived, and a turn of an earlier event has written the dicts
C31_Witness ==
    /\ \E d \in InTurn :
          /\ loop.deliveries[d].event.state \in AwaitingStates
          /\ \E x \in DOMAIN loop.deliveries : loop.deliveries[x].pc = "ready"
    /\ Len(loop.log) >= 1

\* ------------------------------------------------------------------
\* Properties of the reads by device
\* ------------------------------------------------------------------
\* the table a read by device selects from
DeviceTable(op) ==
    IF op = "get_water_level" THEN iot_water ELSE iot_stats

\* C32: after any sequence of creates, GET /iot/water-level/{device_id} and
\* GET /iot/field-stats/{device_id} return a stored entry of the requested
\* device whenever the table holds at least one at the time of the select,
\* and answer 404 exactly when it holds none.
C32_GetByDevice ==
    [][\A r \in DOMAIN iot_requests :
          (Selected(r) /\ iot_requests[r].op \in {"get_water_level", "get_field_stats"}) =>
             LET table == DeviceTable(iot_requests[r].op)
                 stored == {i \in DOMAIN table :
                               table[i].device_id = iot_requests[r].request}
                 answer == iot_requests'[r].answer
             IN  /\ stored # {} =>
                     /\ answer.status = 200
                     /\ Len(answer.rows) = 1
                     /\ \E i \in stored : answer.rows[1] = table[i]
                 /\ answer.status = 404 <=> stored = {}]_vars

\* ------------------------------------------------------------------
\* Properties of image turns
\* ------------------------------------------------------------------
\* the turn that has just run is a turn of handle_image_message in which
\* get_message_content returned the bytes of the image
ImageFetched == turn.branch = "image" /\ turn.exc # "content"

\* C33: an image message never changes conversational state (chat_states
\* and chat_sessions of every user are what they were, so a user in an
\* Awaiting state is still in it), and once the bytes of the image were
\* fetched the temporary file is removed and exactly one reply, the
\* prediction or an error text, is sent.
C33_ImageTurn ==
    /\ [][turn'.branch = "image" /\ request'.handled = request.handled + 1
             => /\ chat_states' = chat_states
                /\ chat_sessions' = chat_sessions
                /\ get_chat_state(chat_states', turn'.user) = turn'.pre]_vars
    /\ [](ImageFetched =>
             /\ Len(turn.replies) = 1
             /\ turn.replies[1].kind \in {"flex", "image_error"}
             /\ \E i, j \in DOMAIN turn.calls :
                   i < j /\ turn.calls[i] = "tempfile" /\ turn.calls[j] = "remove")

\* ------------------------------------------------------------------
\* Properties of get_farm_news
\* ------------------------------------------------------------------
\* get_farm_news has been called
NewsCalled == news.search.kind # "none"

\* the items of the response that get_farm_news looks at
Listed == FirstThree(news.search.results)

\* C34: get_farm_news never raises; a failing search (the call raises, or
\* one of the items looked at is no dict) is returned as an error text; a
\* response without results yields the fixed no-news text; otherwise the
\* text lists the first three results at most, numbered from 1 in the
\* order the Search Provider returned them, each with its title and url
\* or the fixed texts for a missing title or url.
C34_FarmNews ==
    NewsCalled =>
        /\ ~news.raised
        /\ news.text.kind \in {"news_error", "no_news", "news"}
        /\ news.text.kind = "news_error" <=>
               \/ news.search.kind = "raises"
               \/ \E i \in DOMAIN Listed : ~Listed[i].dict
        /\ news.text.kind = "no_news" <=>
               news.search.kind # "raises" /\ news.search.results = <<>>
        /\ news.text.kind # "news" => news.text.entries = <<>>
        /\ news.text.kind = "news" =>
               /\ Len(news.text.entries) <= 3
               /\ Len(news.text.entries) =
                      (IF Len(news.search.results) < 3 THEN Len(news.search.results) ELSE 3)
               /\ \A i \in DOMAIN news.text.entries :
                     LET item == news.search.results[i]
                         entry == news.text.entries[i]
                     IN  /\ entry.i = i
                         /\ entry.title = (IF item.title = Missing THEN "NoTitle" ELSE item.title)
                         /\ entry.url = (IF item.url = Missing THEN "NoUrl" ELSE item.url)

\* the search returned four results and the text lists the first three of
\* them, the second of which has no title
C34_Witness ==
    /\ Len(news.search.results) = 4
    /\ news.text.kind = "news"
    /\ Len(news.text.entries) = 3
    /\ news.search.results[1].title = "T2"
    /\ news.search.results[2].title = Missing
    /\ news.search.results[3].title = "T1"
    /\ news.text.entries[3] = [i |-> 3, title |-> "T1", url |-> "L1"]

====
